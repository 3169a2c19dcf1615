---------------------------- MODULE Chat_proofs -----------------------------
(* Proofs about ChatTurn, for any turns of a session and any processes, and  *)
(* about ChatRun, for any evidence, tools and pieces of an answer.           *)
EXTENDS ChatTurn, ChatRun, SequenceTheorems, TLAPS

-----------------------------------------------------------------------------
(* The inductive invariant of the turns                                      *)

Deleted == chatSession.state = "deleted"

\* The turns that have a transaction or a stream open on the session.
Working(t) == turn[t].phase \in {"opened", "announced", "running", "answered"}

\* The session is created once, by the turn that still has its row uncommitted.
OneCreates ==
    /\ \A t \in Turns : turn[t].fresh =>
           chatSession.state = "absent" /\ Working(t) /\ turn[t].wrote # "none"
    /\ \A t, u \in Turns : turn[t].fresh /\ turn[u].fresh => t = u
    /\ \A t \in Turns : Working(t) => turn[t].fresh \/ chatSession.state # "absent"

\* What was sent to a client has been recorded.
SeenIsSaid(t) ==
    /\ "started" \in turn[t].seen => <<t, "user">> \in Range(said)
    /\ "final" \in turn[t].seen =>
           <<t, "assistant">> \in Range(said) /\ turn[t].phase \in {"answered", "over"}

\* Where a turn is says what it has sent and written.
PhaseFits(t) ==
    /\ turn[t].phase = "guarded" => turn[t].kind = "stream"
    /\ turn[t].phase \in {"idle", "guarded", "opened"} => turn[t].seen = {}
    /\ turn[t].phase = "answered" =>
           /\ turn[t].wrote \in {"succeeded", "failed"}
           /\ turn[t].wrote = "succeeded" => <<t, "assistant">> \in Range(said)

\* A turn that is over has what its client was sent in the tables.
SeenIsKept(t) ==
    turn[t].phase = "over" /\ turn[t].fate # "crashed" /\ ~Deleted =>
        /\ "started" \in turn[t].seen => <<t, "user">> \in stored
        /\ "final" \in turn[t].seen => <<t, "assistant">> \in stored

\* The turns that a streamed one comes after are over, and it is given their answers.
AfterFits(t) ==
    /\ turn[t].kind = "plain" => turn[t].after = {}
    /\ \A u \in turn[t].after : turn[u].phase = "over" /\ "final" \in turn[u].seen
    /\ turn[t].phase = "running" /\ ~Deleted =>
           \A u \in turn[t].after :
               turn[u].fate # "crashed" => <<u, "assistant">> \in turn[t].history

\* A streamed turn in flight has the guard of its process, and no other has it.
GuardsFit ==
    /\ \A t \in Turns : turn[t].kind = "stream" /\ InFlight(t) => flight[turn[t].process] = t
    /\ \A p \in Processes : flight[p] # NoTurn =>
           /\ turn[flight[p]].kind = "stream" /\ turn[flight[p]].process = p
           /\ InFlight(flight[p]) \/ (turn[flight[p]].fate = "left" /\ turn[flight[p]].seen = {})

\* A session is running while a turn works on it, unless one was left or crashed.
RunningHasWork ==
    (Present /\ chatSession.status = "running" /\ \A t \in Turns : turn[t].fate = "none") =>
        \E t \in Turns : Working(t)

\* The inductive invariant of the turns.
TurnInv ==
    /\ ChatTurnTypeOK
    /\ OneCreates
    /\ \A t \in Turns : SeenIsSaid(t) /\ PhaseFits(t) /\ SeenIsKept(t) /\ AfterFits(t)
    /\ GuardsFit
    /\ RunningHasWork

LEMMA TurnInvImplies == TurnInv => TurnsAreWhole
<1> SUFFICES ASSUME TurnInv PROVE TurnsAreWhole
    OBVIOUS
<1>1. SeenIsStored
      BY DEF TurnInv, SeenIsKept, SeenIsStored, Present, Deleted
<1>2. RunningHasTurn
  <2>1. chatSession.state = "present" => ~Deleted
        BY DEF Deleted
  <2>2. \A t \in Turns : Working(t) => InFlight(t)
        BY DEF Working, InFlight
  <2> QED BY <2>2 DEF TurnInv, RunningHasWork, RunningHasTurn
<1>3. FollowUpSeesAnswer
      BY DEF TurnInv, AfterFits, FollowUpSeesAnswer, Present, Deleted
<1>4. FlightIsATurn
      BY DEF TurnInv, GuardsFit, FlightIsATurn
<1> QED BY <1>1, <1>2, <1>3, <1>4 DEF TurnsAreWhole

LEMMA TurnInitInv == ChatTurnInit => TurnInv
<1> SUFFICES ASSUME ChatTurnInit PROVE TurnInv
    OBVIOUS
<1>1. PICK kind \in [Turns -> {"stream", "plain"}], process \in [Turns -> Processes] :
          turn = [t \in Turns |->
              [kind |-> kind[t], process |-> process[t], fresh |-> FALSE, phase |-> "idle",
               wrote |-> "none", history |-> {}, seen |-> {}, fate |-> "none", after |-> {}]]
      BY DEF ChatTurnInit
<1>2. \A t \in Turns :
          /\ turn[t] \in Turn /\ turn[t].phase = "idle" /\ turn[t].seen = {}
          /\ ~turn[t].fresh /\ turn[t].after = {}
      BY <1>1 DEF Turn, TurnStatuses
<1>3. turn \in [Turns -> Turn]
      BY <1>1, <1>2
<1>4. ChatTurnTypeOK
  <2>1. chatSession \in [state : {"absent", "present", "deleted"}, status : TurnStatuses,
                         archived : BOOLEAN]
        BY DEF ChatTurnInit, TurnStatuses
  <2>2. said \in Seq(Messages) /\ stored \subseteq Range(said) /\ rowLock \in Turns \cup {NoTurn}
        BY DEF ChatTurnInit
  <2>3. flight \in [Processes -> Turns \cup {NoTurn}]
        BY DEF ChatTurnInit
  <2> QED BY <1>3, <2>1, <2>2, <2>3 DEF ChatTurnTypeOK
<1>5. OneCreates
      BY <1>2 DEF OneCreates, Working
<1>6. \A t \in Turns : SeenIsSaid(t) /\ PhaseFits(t) /\ SeenIsKept(t) /\ AfterFits(t)
      BY <1>2 DEF SeenIsSaid, PhaseFits, SeenIsKept, AfterFits
<1>7. GuardsFit /\ RunningHasWork
      BY <1>2 DEF GuardsFit, InFlight, ChatTurnInit, RunningHasWork, Present
<1> QED BY <1>4, <1>5, <1>6, <1>7 DEF TurnInv

-----------------------------------------------------------------------------
(* What the steps have in common                                             *)

\* Only a turn that is not over changes.
LEMMA TurnRows ==
    ASSUME TurnInv, NEW t \in Turns, NEW r \in Turn, turn' = [turn EXCEPT ![t] = r]
    PROVE  /\ turn' \in [Turns -> Turn]
           /\ \A u \in Turns : turn'[u] = IF u = t THEN r ELSE turn[u]
BY DEF TurnInv, ChatTurnTypeOK

\* The guards fit a turn that stays in flight, or that gives them back, or that
\* leaves them behind before its first event.
LEMMA GuardsStay ==
    ASSUME TurnInv, NEW t \in Turns, NEW r \in Turn, turn' = [turn EXCEPT ![t] = r],
           r.kind = turn[t].kind, r.process = turn[t].process,
           \/ /\ UNCHANGED flight
              /\ turn[t].kind = "stream" => InFlight(t)
              /\ r.phase \notin {"idle", "over"} \/ (r.fate = "left" /\ r.seen = {})
           \/ Releases(t) /\ r.phase = "over"
    PROVE  GuardsFit' /\ flight' \in [Processes -> Turns \cup {NoTurn}]
<1>1. /\ flight \in [Processes -> Turns \cup {NoTurn}] /\ GuardsFit
      /\ \A u \in Turns : turn[u] \in Turn /\ turn[u].process \in Processes
      BY DEF TurnInv, ChatTurnTypeOK, Turn
<1>2. \A u \in Turns : turn'[u] = IF u = t THEN r ELSE turn[u]
      BY TurnRows
<1>3. t # NoTurn
      BY ChatTurnAssumption
<1>4. CASE /\ UNCHANGED flight
           /\ turn[t].kind = "stream" => InFlight(t)
           /\ r.phase \notin {"idle", "over"} \/ (r.fate = "left" /\ r.seen = {})
      BY <1>1, <1>2, <1>4 DEF GuardsFit, InFlight
<1>5. CASE Releases(t) /\ r.phase = "over"
  <2>1. /\ flight' \in [Processes -> Turns \cup {NoTurn}]
        /\ \A p \in Processes : flight'[p] = IF flight[p] = t THEN NoTurn ELSE flight[p]
        BY <1>1, <1>5 DEF Releases
  <2> QED BY <1>1, <1>2, <1>3, <1>5, <2>1 DEF GuardsFit, InFlight
<1> QED BY <1>4, <1>5

\* One turn goes on; what is said and stored grows, and the session may be created.
LEMMA OneTurnInv ==
    ASSUME TurnInv, NEW t \in Turns, NEW r \in Turn, turn' = [turn EXCEPT ![t] = r],
           turn[t].phase # "over", ChatTurnTypeOK', GuardsFit', RunningHasWork',
           Range(said) \subseteq Range(said'), stored \subseteq stored',
           \/ chatSession'.state = chatSession.state
           \/ chatSession.state = "absent" /\ turn[t].fresh /\ ~r.fresh
                  /\ chatSession'.state = "present",
           r.fresh =>
               /\ chatSession'.state = "absent" /\ Working(t)' /\ r.wrote # "none"
               /\ turn[t].fresh \/ \A u \in Turns : ~turn[u].fresh,
           Working(t)' => r.fresh \/ chatSession'.state # "absent",
           SeenIsSaid(t)', PhaseFits(t)', SeenIsKept(t)', AfterFits(t)'
    PROVE  TurnInv'
<1>1. \A u \in Turns : turn'[u] = IF u = t THEN r ELSE turn[u]
      BY TurnRows
<1>2. OneCreates'
      BY <1>1 DEF TurnInv, OneCreates, Working
<1>3. ASSUME NEW u \in Turns, u # t
      PROVE  SeenIsSaid(u)' /\ PhaseFits(u)' /\ SeenIsKept(u)' /\ AfterFits(u)'
  <2>1. turn'[u] = turn[u] /\ SeenIsSaid(u) /\ PhaseFits(u) /\ SeenIsKept(u) /\ AfterFits(u)
        BY <1>1, <1>3 DEF TurnInv
  <2>2. Deleted' <=> Deleted
        BY DEF Deleted
  <2>3. SeenIsSaid(u)' /\ PhaseFits(u)'
        BY <2>1 DEF SeenIsSaid, PhaseFits
  <2>4. SeenIsKept(u)'
        BY <2>1, <2>2 DEF SeenIsKept
  <2>5. \A v \in turn[u].after : v \in Turns /\ v # t
        BY <2>1 DEF AfterFits, TurnInv, ChatTurnTypeOK, Turn
  <2>6. \A v \in turn[u].after : turn'[v] = turn[v]
        BY <1>1, <2>5
  <2>7. AfterFits(u)'
        BY <2>1, <2>2, <2>6 DEF AfterFits
  <2> QED BY <2>3, <2>4, <2>7
<1> QED BY <1>2, <1>3 DEF TurnInv

\* A working turn of a session that is not deleted has its row.
LEMMA WorkingHasRow ==
    ASSUME TurnInv, NEW t \in Turns, Working(t)
    PROVE  RowFor(t) <=> ~Deleted
BY DEF TurnInv, OneCreates, RowFor, Present, Deleted, ChatTurnTypeOK

\* What a commit leaves: rows, messages and status of the session.
LEMMA TurnCommitFacts ==
    ASSUME TurnInv, NEW t \in Turns, Working(t), NEW changed \in Turn, Commits(t, changed)
    PROVE  /\ chatSession' \in [state : {"absent", "present", "deleted"}, status : TurnStatuses,
                                archived : BOOLEAN]
           /\ stored \subseteq stored' /\ stored' \subseteq Range(said)
           /\ rowLock' \in Turns \cup {NoTurn}
           /\ \/ chatSession'.state = chatSession.state
              \/ chatSession.state = "absent" /\ turn[t].fresh /\ chatSession'.state = "present"
           /\ chatSession'.state # "absent" /\ (Deleted' <=> Deleted)
           /\ ~Deleted => \A m \in Range(said) : m[1] = t => m \in stored'
           /\ Present' /\ chatSession'.status = "running" =>
                  \/ turn[t].wrote = "running"
                  \/ turn[t].wrote = "none" /\ Present /\ chatSession.status = "running"
<1>1. /\ turn[t] \in Turn /\ turn[t].wrote \in TurnStatuses \cup {"none"}
      /\ chatSession \in [state : {"absent", "present", "deleted"}, status : TurnStatuses,
                          archived : BOOLEAN]
      /\ stored \subseteq Range(said) /\ rowLock \in Turns \cup {NoTurn}
      BY DEF TurnInv, ChatTurnTypeOK, Turn
<1>2. /\ turn[t].fresh => chatSession.state = "absent" /\ turn[t].wrote # "none"
      /\ turn[t].fresh \/ chatSession.state # "absent"
      BY DEF TurnInv, OneCreates
<1>3. /\ stored \subseteq stored' /\ stored' \subseteq Range(said)
      /\ ~Deleted => \A m \in Range(said) : m[1] = t => m \in stored'
      BY <1>1, WorkingHasRow DEF Commits, Uncommitted
<1>4. rowLock' \in Turns \cup {NoTurn}
      BY <1>1 DEF Commits
<1>5. CASE turn[t].fresh
  <2>1. chatSession' = [chatSession EXCEPT !.state = "present", !.status = turn[t].wrote]
        BY <1>5 DEF Commits
  <2> QED BY <1>1, <1>2, <1>3, <1>4, <1>5, <2>1 DEF Deleted, Present
<1>6. CASE ~turn[t].fresh /\ Present /\ turn[t].wrote # "none"
  <2>1. chatSession' = [chatSession EXCEPT !.status = turn[t].wrote]
        BY <1>6 DEF Commits
  <2> QED BY <1>1, <1>2, <1>3, <1>4, <1>6, <2>1 DEF Deleted, Present
<1>7. CASE ~turn[t].fresh /\ ~(Present /\ turn[t].wrote # "none")
  <2>1. chatSession' = chatSession
        BY <1>7 DEF Commits
  <2> QED BY <1>1, <1>2, <1>3, <1>4, <1>7, <2>1 DEF Deleted, Present
<1> QED BY <1>5, <1>6, <1>7

\* The session runs on while the turn works, or if it says who was left.
LEMMA RunsOn ==
    ASSUME TurnInv, NEW t \in Turns, NEW r \in Turn, turn' = [turn EXCEPT ![t] = r],
           \/ r.phase \in {"opened", "announced", "running", "answered"}
           \/ r.fate # "none"
           \/ UNCHANGED chatSession /\ ~Working(t) /\ r.fate = turn[t].fate
           \/ ~(Present' /\ chatSession'.status = "running")
    PROVE  RunningHasWork'
<1>1. \A u \in Turns : turn'[u] = IF u = t THEN r ELSE turn[u]
      BY TurnRows
<1>2. CASE r.phase \in {"opened", "announced", "running", "answered"}
      BY <1>1, <1>2 DEF RunningHasWork, Working
<1>3. CASE r.fate # "none"
      BY <1>1, <1>3 DEF RunningHasWork
<1>4. CASE UNCHANGED chatSession /\ ~Working(t) /\ r.fate = turn[t].fate
  <2>1. Present' = Present
        BY <1>4 DEF Present
  <2> QED BY <1>1, <1>4, <2>1 DEF TurnInv, RunningHasWork, Working
<1>5. CASE ~(Present' /\ chatSession'.status = "running")
      BY <1>5 DEF RunningHasWork
<1> QED BY <1>2, <1>3, <1>4, <1>5

\* A message is added to those that were said.
LEMMA Says ==
    ASSUME TurnInv, NEW m \in Messages, said' = Append(said, m)
    PROVE  /\ said' \in Seq(Messages) /\ Range(said') = Range(said) \cup {m}
<1>1. said \in Seq(Messages)
      BY DEF TurnInv, ChatTurnTypeOK
<1>2. said' \in Seq(Messages) /\ Len(said') = Len(said) + 1 /\ said'[Len(said) + 1] = m
      /\ \A n \in 1..Len(said) : said'[n] = said[n]
      BY <1>1
<1>3. DOMAIN said = 1..Len(said) /\ DOMAIN said' = 1..Len(said')
      BY <1>1, <1>2
<1>4. Len(said) \in Nat
      BY <1>1
<1>5. ASSUME NEW x PROVE x \in Range(said') <=> x \in Range(said) \/ x = m
      BY <1>2, <1>3, <1>4 DEF Range
<1> QED BY <1>2, <1>5

-----------------------------------------------------------------------------
(* The steps of one turn                                                     *)

\* Each step replaces the row of its turn by another of the type.
LEMMA AcquireInv == ASSUME TurnInv, NEW t \in Turns, Acquire(t) PROVE TurnInv'
<1> DEFINE p == turn[t].process
           before == {u \in Turns : /\ turn[u].kind = "stream" /\ turn[u].process = p
                                    /\ "final" \in turn[u].seen}
           r == [turn[t] EXCEPT !.phase = "guarded", !.after = before]
<1>1. /\ turn[t] \in Turn /\ turn \in [Turns -> Turn] /\ p \in Processes
      /\ flight \in [Processes -> Turns \cup {NoTurn}]
      BY DEF TurnInv, ChatTurnTypeOK, Turn
<1>2. before \in SUBSET Turns
      OBVIOUS
<1>3. \A u \in before : u \in Turns /\ turn[u].phase = "over" /\ "final" \in turn[u].seen
  <2> SUFFICES ASSUME NEW u \in before PROVE turn[u].phase = "over"
      OBVIOUS
  <2>1. flight[turn[u].process] # u
        BY <1>1, ChatTurnAssumption DEF Acquire
  <2> QED BY <2>1 DEF TurnInv, GuardsFit, InFlight, PhaseFits
<1>4. /\ turn[t].kind = "stream" /\ turn[t].phase = "idle" /\ flight[p] = NoTurn
      /\ flight' = [flight EXCEPT ![p] = t] /\ turn' = [turn EXCEPT ![t] = r]
      /\ UNCHANGED <<chatSession, said, stored, rowLock>>
      BY <1>1 DEF Acquire
<1> HIDE DEF before
<1>5. /\ r \in Turn /\ r.phase = "guarded" /\ r.after = before /\ r.kind = "stream"
      /\ r.process = p /\ r.fresh = turn[t].fresh /\ r.wrote = turn[t].wrote
      /\ r.seen = turn[t].seen /\ r.fate = turn[t].fate
      BY <1>1, <1>2, <1>4 DEF Turn
<1> HIDE DEF r, p
<1>6. \A u \in Turns : turn'[u] = IF u = t THEN r ELSE turn[u]
      BY <1>4, <1>5, TurnRows
<1>7. ~turn[t].fresh /\ turn[t].seen = {} /\ ~Working(t)
      BY <1>4 DEF TurnInv, OneCreates, Working, PhaseFits
<1>8. ChatTurnTypeOK'
      BY <1>1, <1>4, <1>5, TurnRows DEF TurnInv, ChatTurnTypeOK
<1>9. GuardsFit'
  <2>1. \A q \in Processes : flight'[q] = IF q = p THEN t ELSE flight[q]
        BY <1>1, <1>4
  <2>2. \A u \in Turns : turn[u].process \in Processes
        BY <1>1 DEF Turn
  <2>3. GuardsFit
        BY DEF TurnInv
  <2>4. ASSUME NEW u \in Turns, turn'[u].kind = "stream", InFlight(u)'
        PROVE  flight'[turn'[u].process] = u
    <3>1. CASE u = t
          BY <1>1, <1>5, <1>6, <2>1, <3>1
    <3>2. CASE u # t
      <4>1. flight[turn[u].process] = u /\ turn'[u] = turn[u]
            BY <1>6, <2>3, <2>4, <3>2 DEF GuardsFit, InFlight
      <4>2. turn[u].process # p
            BY <1>4, <4>1, ChatTurnAssumption
      <4> QED BY <2>1, <2>2, <4>1, <4>2
    <3> QED BY <3>1, <3>2
  <2>5. ASSUME NEW q \in Processes, flight'[q] # NoTurn
        PROVE  /\ turn'[flight'[q]].kind = "stream" /\ turn'[flight'[q]].process = q
               /\ \/ turn'[flight'[q]].phase \notin {"idle", "over"}
                  \/ turn'[flight'[q]].fate = "left" /\ turn'[flight'[q]].seen = {}
    <3>1. CASE q = p
          BY <1>5, <1>6, <2>1, <3>1
    <3>2. CASE q # p
      <4>1. flight'[q] = flight[q] /\ flight[q] \in Turns
            BY <1>1, <2>1, <2>5, <3>2
      <4>2. /\ turn[flight[q]].kind = "stream" /\ turn[flight[q]].process = q
            /\ InFlight(flight[q]) \/ (turn[flight[q]].fate = "left" /\ turn[flight[q]].seen = {})
            BY <2>3, <2>5, <4>1 DEF GuardsFit
      <4>3. turn'[flight[q]] = turn[flight[q]]
        <5>1. turn[t].process = p
              BY DEF p
        <5> QED BY <1>6, <3>2, <4>1, <4>2, <5>1
      <4> QED BY <4>1, <4>2, <4>3 DEF InFlight
    <3> QED BY <3>1, <3>2
  <2> QED BY <2>4, <2>5 DEF GuardsFit, InFlight
<1>10. RunningHasWork'
      BY <1>4, <1>5, <1>7, RunsOn
<1>11. SeenIsSaid(t)' /\ PhaseFits(t)' /\ SeenIsKept(t)'
      BY <1>5, <1>6, <1>7 DEF SeenIsSaid, PhaseFits, SeenIsKept
<1>12. AfterFits(t)'
      BY <1>3, <1>4, <1>5, <1>6 DEF AfterFits
<1>13. ~Working(t)'
      BY <1>5, <1>6 DEF Working
<1> QED BY <1>4, <1>5, <1>7, <1>8, <1>9, <1>10, <1>11, <1>12, <1>13, OneTurnInv

\* What a session that can start a turn says of the turn's row.
LEMMA StartFacts ==
    ASSUME TurnInv, NEW t \in Turns, StartsSession(t), TakesLock(t)
    PROVE  /\ WritesRunning(t) \in {"none", "running"} /\ rowLock' \in Turns \cup {NoTurn}
           /\ ~Present => /\ chatSession.state = "absent" /\ WritesRunning(t) # "none"
                          /\ \A u \in Turns : ~turn[u].fresh
           /\ Present => chatSession.state # "absent"
           /\ ~Deleted
BY DEF StartsSession, TakesLock, WritesRunning, Present, Deleted, TurnInv, ChatTurnTypeOK

LEMMA OpenStreamInv == ASSUME TurnInv, NEW t \in Turns, OpenStream(t) PROVE TurnInv'
<1> DEFINE f == ~Present
           w == WritesRunning(t)
           r == [turn[t] EXCEPT !.phase = "opened", !.fresh = f, !.wrote = w]
<1>1. turn[t] \in Turn /\ turn \in [Turns -> Turn]
      BY DEF TurnInv, ChatTurnTypeOK
<1>2. /\ turn[t].kind = "stream" /\ turn[t].phase = "guarded"
      /\ StartsSession(t) /\ TakesLock(t) /\ turn' = [turn EXCEPT ![t] = r]
      /\ UNCHANGED <<chatSession, said, stored, flight>>
      BY <1>1 DEF OpenStream, Starting
<1>3. /\ f \in BOOLEAN /\ w \in TurnStatuses \cup {"none"} /\ rowLock' \in Turns \cup {NoTurn}
      /\ f => /\ chatSession.state = "absent" /\ w # "none" /\ \A u \in Turns : ~turn[u].fresh
      /\ ~f => chatSession.state # "absent"
      BY <1>2, StartFacts DEF TurnStatuses
<1> HIDE DEF f, w
<1>4. /\ r \in Turn /\ r.phase = "opened" /\ r.after = turn[t].after /\ r.kind = turn[t].kind
      /\ r.process = turn[t].process /\ r.fresh = f /\ r.wrote = w
      /\ r.seen = turn[t].seen /\ r.fate = turn[t].fate
      BY <1>1, <1>3 DEF Turn
<1> HIDE DEF r
<1>5. \A u \in Turns : turn'[u] = IF u = t THEN r ELSE turn[u]
      BY <1>2, <1>4, TurnRows
<1>6. GuardsFit' /\ flight' \in [Processes -> Turns \cup {NoTurn}]
  <2>1. InFlight(t)
        BY <1>2 DEF InFlight
  <2> QED BY <1>2, <1>4, <2>1, GuardsStay
<1>7. ChatTurnTypeOK'
      BY <1>2, <1>3, <1>4, TurnRows DEF TurnInv, ChatTurnTypeOK
<1>8. RunningHasWork'
      BY <1>2, <1>4, RunsOn
<1>9. SeenIsSaid(t)' /\ PhaseFits(t)' /\ SeenIsKept(t)'
      BY <1>2, <1>4, <1>5 DEF TurnInv, SeenIsSaid, PhaseFits, SeenIsKept
<1>10. AfterFits(t)'
  <2>1. AfterFits(t) /\ \A u \in turn[t].after : u \in Turns /\ u # t
        BY <1>1, <1>2 DEF TurnInv, AfterFits, Turn
  <2> QED BY <1>2, <1>4, <1>5, <2>1 DEF AfterFits
<1>11. Working(t)'
      BY <1>4, <1>5 DEF Working
<1> QED BY <1>2, <1>3, <1>4, <1>6, <1>7, <1>8, <1>9, <1>10, <1>11, OneTurnInv

LEMMA OpenPlainInv == ASSUME TurnInv, NEW t \in Turns, OpenPlain(t) PROVE TurnInv'
<1> DEFINE f == ~Present
           w == WritesRunning(t)
           r == [turn[t] EXCEPT !.phase = "running", !.fresh = f, !.wrote = w,
                                !.history = stored]
<1>1. /\ turn[t] \in Turn /\ turn \in [Turns -> Turn] /\ said \in Seq(Messages)
      /\ stored \subseteq Range(said)
      BY DEF TurnInv, ChatTurnTypeOK
<1>2. /\ turn[t].kind = "plain" /\ turn[t].phase = "idle" /\ said' = Append(said, <<t, "user">>)
      /\ StartsSession(t) /\ TakesLock(t) /\ turn' = [turn EXCEPT ![t] = r]
      /\ UNCHANGED <<chatSession, stored, flight>>
      BY <1>1 DEF OpenPlain, Starting
<1>3. /\ f \in BOOLEAN /\ w \in TurnStatuses \cup {"none"} /\ rowLock' \in Turns \cup {NoTurn}
      /\ f => /\ chatSession.state = "absent" /\ w # "none" /\ \A u \in Turns : ~turn[u].fresh
      /\ ~f => chatSession.state # "absent"
      BY <1>2, StartFacts DEF TurnStatuses
<1>4. said' \in Seq(Messages) /\ Range(said') = Range(said) \cup {<<t, "user">>}
  <2>1. <<t, "user">> \in Messages
        BY DEF Messages, Roles
  <2> QED BY <1>2, <2>1, Says
<1>5. stored \in SUBSET Messages
  <2>1. Range(said) \subseteq Messages
        BY <1>1, RangeOfSeq
  <2> QED BY <1>1, <2>1
<1> HIDE DEF f, w
<1>6. /\ r \in Turn /\ r.phase = "running" /\ r.after = turn[t].after /\ r.kind = turn[t].kind
      /\ r.process = turn[t].process /\ r.fresh = f /\ r.wrote = w
      /\ r.seen = turn[t].seen /\ r.fate = turn[t].fate
      BY <1>1, <1>3, <1>5 DEF Turn
<1> HIDE DEF r
<1>7. \A u \in Turns : turn'[u] = IF u = t THEN r ELSE turn[u]
      BY <1>2, <1>6, TurnRows
<1>8. GuardsFit' /\ flight' \in [Processes -> Turns \cup {NoTurn}]
      BY <1>2, <1>6, GuardsStay
<1>9. ChatTurnTypeOK'
      BY <1>1, <1>2, <1>3, <1>4, <1>6, TurnRows DEF TurnInv, ChatTurnTypeOK
<1>10. RunningHasWork'
      BY <1>2, <1>6, RunsOn
<1>11. SeenIsSaid(t)' /\ PhaseFits(t)' /\ SeenIsKept(t)' /\ AfterFits(t)'
  <2>1. turn[t].seen = {} /\ turn[t].after = {}
        BY <1>2 DEF TurnInv, PhaseFits, AfterFits
  <2> QED BY <1>6, <1>7, <2>1 DEF SeenIsSaid, PhaseFits, SeenIsKept, AfterFits
<1>12. Working(t)'
      BY <1>6, <1>7 DEF Working
<1> QED BY <1>2, <1>3, <1>4, <1>6, <1>8, <1>9, <1>10, <1>11, <1>12, OneTurnInv

LEMMA StartRefusedInv == ASSUME TurnInv, NEW t \in Turns, StartRefused(t) PROVE TurnInv'
<1> DEFINE r == [turn[t] EXCEPT !.phase = "over"]
<1>1. turn[t] \in Turn /\ turn \in [Turns -> Turn]
      BY DEF TurnInv, ChatTurnTypeOK
<1>2. /\ turn[t].phase \in {"idle", "guarded"} /\ Releases(t) /\ turn' = [turn EXCEPT ![t] = r]
      /\ UNCHANGED <<chatSession, said, stored, rowLock>>
      BY <1>1 DEF StartRefused, Starting
<1>3. /\ r \in Turn /\ r.phase = "over" /\ r.after = turn[t].after /\ r.kind = turn[t].kind
      /\ r.process = turn[t].process /\ r.fresh = turn[t].fresh
      /\ r.seen = turn[t].seen /\ r.fate = turn[t].fate
      BY <1>1 DEF Turn
<1> HIDE DEF r
<1>4. \A u \in Turns : turn'[u] = IF u = t THEN r ELSE turn[u]
      BY <1>2, <1>3, TurnRows
<1>5. GuardsFit' /\ flight' \in [Processes -> Turns \cup {NoTurn}]
      BY <1>2, <1>3, GuardsStay
<1>6. ChatTurnTypeOK'
      BY <1>2, <1>3, <1>5, TurnRows DEF TurnInv, ChatTurnTypeOK
<1>7. ~turn[t].fresh /\ turn[t].seen = {} /\ ~Working(t)
      BY <1>2 DEF TurnInv, OneCreates, Working, PhaseFits
<1>8. RunningHasWork'
      BY <1>2, <1>3, <1>7, RunsOn
<1>9. SeenIsSaid(t)' /\ PhaseFits(t)' /\ SeenIsKept(t)'
      BY <1>3, <1>4, <1>7 DEF SeenIsSaid, PhaseFits, SeenIsKept
<1>10. AfterFits(t)'
  <2>1. AfterFits(t) /\ \A u \in turn[t].after : u \in Turns /\ u # t
        BY <1>1, <1>2 DEF TurnInv, AfterFits, Turn
  <2> QED BY <1>3, <1>4, <2>1 DEF AfterFits
<1>11. ~Working(t)'
      BY <1>3, <1>4 DEF Working
<1> QED BY <1>2, <1>3, <1>5, <1>6, <1>7, <1>8, <1>9, <1>10, <1>11, OneTurnInv

LEMMA AnnounceInv == ASSUME TurnInv, NEW t \in Turns, Announce(t) PROVE TurnInv'
<1> DEFINE r == [turn[t] EXCEPT !.phase = "announced", !.seen = turn[t].seen \cup {"started"}]
<1>1. turn[t] \in Turn /\ turn \in [Turns -> Turn]
      BY DEF TurnInv, ChatTurnTypeOK
<1>2. /\ turn[t].phase = "opened" /\ said' = Append(said, <<t, "user">>)
      /\ turn' = [turn EXCEPT ![t] = r] /\ UNCHANGED <<chatSession, stored, rowLock, flight>>
      BY <1>1 DEF Announce
<1>3. said' \in Seq(Messages) /\ Range(said') = Range(said) \cup {<<t, "user">>}
  <2>1. <<t, "user">> \in Messages
        BY DEF Messages, Roles
  <2> QED BY <1>2, <2>1, Says
<1>4. turn[t].seen = {} /\ turn[t].seen \cup {"started"} = {"started"}
      BY <1>2 DEF TurnInv, PhaseFits
<1>5. /\ r \in Turn /\ r.phase = "announced" /\ r.after = turn[t].after /\ r.kind = turn[t].kind
      /\ r.process = turn[t].process /\ r.fresh = turn[t].fresh /\ r.wrote = turn[t].wrote
      /\ r.seen = {"started"} /\ r.fate = turn[t].fate
      BY <1>1, <1>4 DEF Turn
<1> HIDE DEF r
<1>6. \A u \in Turns : turn'[u] = IF u = t THEN r ELSE turn[u]
      BY <1>2, <1>5, TurnRows
<1>7. InFlight(t) /\ Working(t) /\ Working(t)'
      BY <1>2, <1>5, <1>6 DEF InFlight, Working
<1>8. GuardsFit' /\ flight' \in [Processes -> Turns \cup {NoTurn}]
      BY <1>2, <1>5, <1>7, GuardsStay
<1>9. ChatTurnTypeOK'
  <2>1. stored' \subseteq Range(said')
        BY <1>2, <1>3 DEF TurnInv, ChatTurnTypeOK
  <2> QED BY <1>2, <1>3, <1>5, <1>8, <2>1, TurnRows DEF TurnInv, ChatTurnTypeOK
<1>10. RunningHasWork'
      BY <1>2, <1>5, RunsOn
<1>11. SeenIsSaid(t)' /\ PhaseFits(t)' /\ SeenIsKept(t)'
      BY <1>3, <1>5, <1>6 DEF SeenIsSaid, PhaseFits, SeenIsKept
<1>12. AfterFits(t)'
  <2>1. AfterFits(t) /\ \A u \in turn[t].after : u \in Turns /\ u # t
        BY <1>1, <1>2 DEF TurnInv, AfterFits, Turn
  <2> QED BY <1>5, <1>6, <2>1 DEF AfterFits
<1>13. /\ turn[t].fresh => chatSession.state = "absent" /\ turn[t].wrote # "none"
       /\ turn[t].fresh \/ chatSession.state # "absent"
      BY <1>7 DEF TurnInv, OneCreates
<1> QED BY <1>2, <1>3, <1>5, <1>7, <1>8, <1>9, <1>10, <1>11, <1>12, <1>13, OneTurnInv

\* The messages a stream is given have those that were committed, but for its own.
LEMMA HistoryFacts ==
    ASSUME TurnInv, NEW t \in Turns
    PROVE  /\ HistoryFor(t) \in SUBSET Messages
           /\ \A u \in Turns : <<u, "assistant">> \in stored => <<u, "assistant">> \in HistoryFor(t)
<1>1. said \in Seq(Messages) /\ stored \subseteq Range(said)
      BY DEF TurnInv, ChatTurnTypeOK
<1> DEFINE visible == {n \in DOMAIN said : said[n] \in stored \/ said[n][1] = t}
           own == {n \in visible : said[n] = <<t, "user">> /\ \A later \in visible : later <= n}
<1>2. HistoryFor(t) = {said[n] : n \in visible \ own}
      BY DEF HistoryFor
<1>3. \A n \in DOMAIN said : said[n] \in Messages
      BY <1>1
<1>4. ASSUME NEW u \in Turns, <<u, "assistant">> \in stored
      PROVE  <<u, "assistant">> \in HistoryFor(t)
  <2>1. PICK n \in DOMAIN said : said[n] = <<u, "assistant">>
        BY <1>1, <1>4 DEF Range
  <2>2. n \in visible /\ n \notin own
        BY <1>4, <2>1
  <2> QED BY <1>2, <2>1, <2>2
<1> QED BY <1>2, <1>3, <1>4

LEMMA CommitStartInv == ASSUME TurnInv, NEW t \in Turns, CommitStart(t) PROVE TurnInv'
<1> DEFINE h == HistoryFor(t)
           changed == [turn[t] EXCEPT !.phase = "running", !.history = h]
           r == [changed EXCEPT !.wrote = "none", !.fresh = FALSE]
<1>1. turn[t] \in Turn /\ turn \in [Turns -> Turn]
      BY DEF TurnInv, ChatTurnTypeOK
<1>2. /\ h \in SUBSET Messages
      /\ \A u \in Turns : <<u, "assistant">> \in stored => <<u, "assistant">> \in h
      BY HistoryFacts
<1>3. /\ turn[t].phase = "announced" /\ Commits(t, changed) /\ UNCHANGED <<said, flight>>
      BY DEF CommitStart
<1>4. turn' = [turn EXCEPT ![t] = r]
      BY <1>3 DEF Commits
<1> HIDE DEF h
<1>5. changed \in Turn
      BY <1>1, <1>2 DEF Turn
<1>6. /\ r \in Turn /\ r.phase = "running" /\ r.after = turn[t].after /\ r.kind = turn[t].kind
      /\ r.process = turn[t].process /\ ~r.fresh /\ r.wrote = "none" /\ r.history = h
      /\ r.seen = turn[t].seen /\ r.fate = turn[t].fate
      BY <1>1, <1>2 DEF Turn
<1> HIDE DEF changed, r
<1>7. \A u \in Turns : turn'[u] = IF u = t THEN r ELSE turn[u]
      BY <1>4, <1>6, TurnRows
<1>8. InFlight(t) /\ Working(t) /\ Working(t)'
      BY <1>3, <1>6, <1>7 DEF InFlight, Working
<1>9. GuardsFit' /\ flight' \in [Processes -> Turns \cup {NoTurn}]
      BY <1>3, <1>4, <1>6, <1>8, GuardsStay
<1>10. /\ chatSession' \in [state : {"absent", "present", "deleted"}, status : TurnStatuses,
                            archived : BOOLEAN]
       /\ stored \subseteq stored' /\ stored' \subseteq Range(said)
       /\ rowLock' \in Turns \cup {NoTurn}
       /\ \/ chatSession'.state = chatSession.state
          \/ chatSession.state = "absent" /\ turn[t].fresh /\ chatSession'.state = "present"
       /\ chatSession'.state # "absent" /\ (Deleted' <=> Deleted)
      BY <1>3, <1>5, <1>8, TurnCommitFacts
<1>11. ChatTurnTypeOK'
  <2>1. turn' \in [Turns -> Turn]
        BY <1>4, <1>6, TurnRows
  <2>2. said \in Seq(Messages)
        BY DEF TurnInv, ChatTurnTypeOK
  <2> QED BY <1>3, <1>9, <1>10, <2>1, <2>2 DEF ChatTurnTypeOK
<1>12. RunningHasWork'
      BY <1>4, <1>6, RunsOn
<1>13. SeenIsSaid(t)' /\ PhaseFits(t)' /\ SeenIsKept(t)'
      BY <1>3, <1>6, <1>7 DEF TurnInv, SeenIsSaid, PhaseFits, SeenIsKept
<1>14. AfterFits(t)'
  <2>1. AfterFits(t) /\ \A u \in turn[t].after : u \in Turns /\ u # t
        BY <1>1, <1>3 DEF TurnInv, AfterFits, Turn
  <2>2. \A u \in turn[t].after : turn'[u] = turn[u]
        BY <1>7, <2>1
  <2>3. \A u \in turn[t].after : turn[u].phase = "over" /\ "final" \in turn[u].seen /\ SeenIsKept(u)
        BY <2>1 DEF AfterFits, TurnInv
  <2>4. ~Deleted' => \A u \in turn[t].after :
            turn[u].fate # "crashed" => <<u, "assistant">> \in h
        BY <1>2, <1>10, <2>1, <2>3 DEF SeenIsKept
  <2> QED BY <1>6, <1>7, <2>1, <2>2, <2>3, <2>4 DEF AfterFits
<1>15. Range(said) \subseteq Range(said')
      BY <1>3
<1> QED BY <1>3, <1>4, <1>6, <1>8, <1>9, <1>10, <1>11, <1>12, <1>13, <1>14, <1>15, OneTurnInv

LEMMA AnswerInv == ASSUME TurnInv, NEW t \in Turns, Answer(t) PROVE TurnInv'
<1> DEFINE s == IF turn[t].kind = "stream" THEN turn[t].seen \cup {"final"} ELSE turn[t].seen
           r == [turn[t] EXCEPT !.phase = "answered", !.wrote = "succeeded", !.seen = s]
<1>1. turn[t] \in Turn /\ turn \in [Turns -> Turn]
      BY DEF TurnInv, ChatTurnTypeOK
<1>2. /\ turn[t].phase = "running" /\ said' = Append(said, <<t, "assistant">>) /\ rowLock' = t
      /\ turn' = [turn EXCEPT ![t] = r] /\ UNCHANGED <<chatSession, stored, flight>>
      BY <1>1 DEF Answer
<1>3. s \in SUBSET {"started", "final", "error", "broken"} /\ ("started" \in s => "started" \in turn[t].seen)
      BY <1>1 DEF Turn
<1>4. said' \in Seq(Messages) /\ Range(said') = Range(said) \cup {<<t, "assistant">>}
  <2>1. <<t, "assistant">> \in Messages
        BY DEF Messages, Roles
  <2> QED BY <1>2, <2>1, Says
<1> HIDE DEF s
<1>5. /\ r \in Turn /\ r.phase = "answered" /\ r.after = turn[t].after /\ r.kind = turn[t].kind
      /\ r.process = turn[t].process /\ r.fresh = turn[t].fresh /\ r.wrote = "succeeded"
      /\ r.seen = s /\ r.fate = turn[t].fate
      BY <1>1, <1>3 DEF Turn, TurnStatuses
<1> HIDE DEF r
<1>6. \A u \in Turns : turn'[u] = IF u = t THEN r ELSE turn[u]
      BY <1>2, <1>5, TurnRows
<1>7. InFlight(t) /\ Working(t) /\ Working(t)'
      BY <1>2, <1>5, <1>6 DEF InFlight, Working
<1>8. GuardsFit' /\ flight' \in [Processes -> Turns \cup {NoTurn}]
      BY <1>2, <1>5, <1>7, GuardsStay
<1>9. ChatTurnTypeOK'
  <2>1. stored' \subseteq Range(said')
        BY <1>2, <1>4 DEF TurnInv, ChatTurnTypeOK
  <2> QED BY <1>2, <1>4, <1>5, <1>8, <2>1, TurnRows DEF TurnInv, ChatTurnTypeOK
<1>10. RunningHasWork'
      BY <1>2, <1>5, RunsOn
<1>11. SeenIsSaid(t)' /\ PhaseFits(t)' /\ SeenIsKept(t)'
      BY <1>3, <1>4, <1>5, <1>6 DEF TurnInv, SeenIsSaid, PhaseFits, SeenIsKept
<1>12. AfterFits(t)'
  <2>1. AfterFits(t) /\ \A u \in turn[t].after : u \in Turns /\ u # t
        BY <1>1, <1>2 DEF TurnInv, AfterFits, Turn
  <2> QED BY <1>5, <1>6, <2>1 DEF AfterFits
<1>13. /\ turn[t].fresh => chatSession.state = "absent" /\ turn[t].wrote # "none"
       /\ turn[t].fresh \/ chatSession.state # "absent"
      BY <1>7 DEF TurnInv, OneCreates
<1> QED BY <1>2, <1>4, <1>5, <1>7, <1>8, <1>9, <1>10, <1>11, <1>12, <1>13, OneTurnInv

LEMMA RunFailsInv == ASSUME TurnInv, NEW t \in Turns, RunFails(t) PROVE TurnInv'
<1> DEFINE s == IF turn[t].kind = "stream" THEN turn[t].seen \cup {"error"} ELSE turn[t].seen
           r == [turn[t] EXCEPT !.phase = "answered", !.wrote = "failed", !.seen = s]
<1>1. turn[t] \in Turn /\ turn \in [Turns -> Turn]
      BY DEF TurnInv, ChatTurnTypeOK
<1>2. /\ turn[t].phase = "running" /\ rowLock' = t
      /\ turn' = [turn EXCEPT ![t] = r] /\ UNCHANGED <<chatSession, said, stored, flight>>
      BY <1>1 DEF RunFails
<1>3. /\ s \in SUBSET {"started", "final", "error", "broken"}
      /\ "started" \in s => "started" \in turn[t].seen
      /\ "final" \in s => "final" \in turn[t].seen
      BY <1>1 DEF Turn
<1> HIDE DEF s
<1>4. /\ r \in Turn /\ r.phase = "answered" /\ r.after = turn[t].after /\ r.kind = turn[t].kind
      /\ r.process = turn[t].process /\ r.fresh = turn[t].fresh /\ r.wrote = "failed"
      /\ r.seen = s /\ r.fate = turn[t].fate
      BY <1>1, <1>3 DEF Turn, TurnStatuses
<1> HIDE DEF r
<1>5. \A u \in Turns : turn'[u] = IF u = t THEN r ELSE turn[u]
      BY <1>2, <1>4, TurnRows
<1>6. InFlight(t) /\ Working(t) /\ Working(t)'
      BY <1>2, <1>4, <1>5 DEF InFlight, Working
<1>7. GuardsFit' /\ flight' \in [Processes -> Turns \cup {NoTurn}]
      BY <1>2, <1>4, <1>6, GuardsStay
<1>8. ChatTurnTypeOK'
      BY <1>2, <1>4, <1>7, TurnRows DEF TurnInv, ChatTurnTypeOK
<1>9. RunningHasWork'
      BY <1>2, <1>4, RunsOn
<1>10. SeenIsSaid(t)' /\ PhaseFits(t)' /\ SeenIsKept(t)'
      BY <1>2, <1>3, <1>4, <1>5 DEF TurnInv, SeenIsSaid, PhaseFits, SeenIsKept
<1>11. AfterFits(t)'
  <2>1. AfterFits(t) /\ \A u \in turn[t].after : u \in Turns /\ u # t
        BY <1>1, <1>2 DEF TurnInv, AfterFits, Turn
  <2> QED BY <1>4, <1>5, <2>1 DEF AfterFits
<1>12. /\ turn[t].fresh => chatSession.state = "absent" /\ turn[t].wrote # "none"
       /\ turn[t].fresh \/ chatSession.state # "absent"
      BY <1>6 DEF TurnInv, OneCreates
<1> QED BY <1>2, <1>4, <1>6, <1>7, <1>8, <1>9, <1>10, <1>11, <1>12, OneTurnInv

\* The end of a turn that commits and gives its guards back: what its client
\* was sent has been said, so it is in the tables.
LEMMA TurnEndsInv ==
    ASSUME TurnInv, NEW t \in Turns, Working(t), NEW changed \in Turn, Commits(t, changed),
           Releases(t), UNCHANGED said,
           changed.phase = "over", changed.kind = turn[t].kind,
           changed.process = turn[t].process, changed.after = turn[t].after,
           "started" \in changed.seen => "started" \in turn[t].seen,
           "final" \in changed.seen => <<t, "assistant">> \in Range(said),
           changed.fate # "none" \/ Deleted \/ turn[t].wrote \in {"succeeded", "failed"}
    PROVE  TurnInv'
<1> DEFINE r == [changed EXCEPT !.wrote = "none", !.fresh = FALSE]
<1>1. turn[t] \in Turn /\ turn \in [Turns -> Turn]
      BY DEF TurnInv, ChatTurnTypeOK
<1>2. turn' = [turn EXCEPT ![t] = r]
      BY DEF Commits
<1>3. /\ r \in Turn /\ r.phase = "over" /\ r.after = turn[t].after /\ r.kind = turn[t].kind
      /\ r.process = turn[t].process /\ ~r.fresh /\ r.seen = changed.seen
      /\ r.fate = changed.fate
      BY DEF Turn
<1> HIDE DEF r
<1>4. \A u \in Turns : turn'[u] = IF u = t THEN r ELSE turn[u]
      BY <1>2, <1>3, TurnRows
<1>5. turn[t].phase # "over" /\ ~Working(t)'
      BY <1>3, <1>4 DEF Working
<1>6. GuardsFit' /\ flight' \in [Processes -> Turns \cup {NoTurn}]
      BY <1>2, <1>3, GuardsStay
<1>7. /\ chatSession' \in [state : {"absent", "present", "deleted"}, status : TurnStatuses,
                           archived : BOOLEAN]
      /\ stored \subseteq stored' /\ stored' \subseteq Range(said)
      /\ rowLock' \in Turns \cup {NoTurn}
      /\ \/ chatSession'.state = chatSession.state
         \/ chatSession.state = "absent" /\ turn[t].fresh /\ chatSession'.state = "present"
      /\ chatSession'.state # "absent" /\ (Deleted' <=> Deleted)
      /\ ~Deleted => \A m \in Range(said) : m[1] = t => m \in stored'
      /\ Present' /\ chatSession'.status = "running" =>
             turn[t].wrote = "running" \/ turn[t].wrote = "none"
      BY TurnCommitFacts
<1>8. ChatTurnTypeOK'
  <2>1. turn' \in [Turns -> Turn]
        BY <1>2, <1>3, TurnRows
  <2>2. said \in Seq(Messages)
        BY DEF TurnInv, ChatTurnTypeOK
  <2> QED BY <1>6, <1>7, <2>1, <2>2 DEF ChatTurnTypeOK
<1>9. RunningHasWork'
  <2>1. r.fate # "none" \/ ~(Present' /\ chatSession'.status = "running")
        BY <1>3, <1>7 DEF Deleted, Present
  <2> QED BY <1>2, <1>3, <2>1, RunsOn
<1>10. "started" \in turn[t].seen => <<t, "user">> \in Range(said)
      BY DEF TurnInv, SeenIsSaid
<1>11. SeenIsSaid(t)' /\ PhaseFits(t)'
      BY <1>3, <1>4, <1>10 DEF SeenIsSaid, PhaseFits
<1>12. SeenIsKept(t)'
      BY <1>3, <1>4, <1>7, <1>10 DEF SeenIsKept
<1>13. AfterFits(t)'
  <2>1. AfterFits(t) /\ \A u \in turn[t].after : u \in Turns /\ u # t
        BY <1>1, <1>5 DEF TurnInv, AfterFits, Turn
  <2> QED BY <1>3, <1>4, <2>1 DEF AfterFits
<1>14. Range(said) \subseteq Range(said')
      OBVIOUS
<1> QED BY <1>2, <1>3, <1>5, <1>6, <1>7, <1>8, <1>9, <1>11, <1>12, <1>13, <1>14, OneTurnInv

LEMMA BreakInv == ASSUME TurnInv, NEW t \in Turns, Break(t) PROVE TurnInv'
<1> DEFINE s == turn[t].seen \cup {"broken"}
           changed == [turn[t] EXCEPT !.phase = "over", !.seen = s]
<1>1. turn[t] \in Turn
      BY DEF TurnInv, ChatTurnTypeOK
<1>2. /\ turn[t].phase \in {"opened", "running"} /\ ~RowFor(t) /\ Commits(t, changed)
      /\ Releases(t) /\ UNCHANGED said
      BY <1>1 DEF Break
<1>3. Working(t) /\ Deleted
  <2>1. Working(t)
        BY <1>2 DEF Working
  <2> QED BY <1>2, <2>1, WorkingHasRow
<1>4. /\ s \in SUBSET {"started", "final", "error", "broken"}
      /\ "started" \in s => "started" \in turn[t].seen
      /\ "final" \in s => <<t, "assistant">> \in Range(said)
      BY <1>1 DEF Turn, TurnInv, SeenIsSaid
<1> HIDE DEF s
<1>5. /\ changed \in Turn /\ changed.phase = "over" /\ changed.kind = turn[t].kind
      /\ changed.process = turn[t].process /\ changed.after = turn[t].after /\ changed.seen = s
      BY <1>1, <1>4 DEF Turn
<1> HIDE DEF changed
<1> QED BY <1>2, <1>3, <1>4, <1>5, TurnEndsInv

LEMMA CommitTurnInv == ASSUME TurnInv, NEW t \in Turns, CommitTurn(t) PROVE TurnInv'
<1> DEFINE s == IF turn[t].kind = "stream" THEN turn[t].seen
                ELSE turn[t].seen \cup {IF turn[t].wrote = "succeeded" THEN "final" ELSE "error"}
           changed == [turn[t] EXCEPT !.phase = "over", !.seen = s]
<1>1. turn[t] \in Turn
      BY DEF TurnInv, ChatTurnTypeOK
<1>2. /\ turn[t].phase = "answered" /\ Commits(t, changed) /\ Releases(t) /\ UNCHANGED said
      BY <1>1 DEF CommitTurn
<1>3. /\ turn[t].wrote \in {"succeeded", "failed"}
      /\ turn[t].wrote = "succeeded" => <<t, "assistant">> \in Range(said)
      /\ "final" \in turn[t].seen => <<t, "assistant">> \in Range(said)
      BY <1>2 DEF TurnInv, PhaseFits, SeenIsSaid
<1>4. /\ s \in SUBSET {"started", "final", "error", "broken"}
      /\ "started" \in s => "started" \in turn[t].seen
      /\ "final" \in s => <<t, "assistant">> \in Range(said)
      BY <1>1, <1>3 DEF Turn
<1> HIDE DEF s
<1>5. /\ changed \in Turn /\ changed.phase = "over" /\ changed.kind = turn[t].kind
      /\ changed.process = turn[t].process /\ changed.after = turn[t].after /\ changed.seen = s
      BY <1>1, <1>4 DEF Turn
<1>6. Working(t)
      BY <1>2 DEF Working
<1> HIDE DEF changed
<1> QED BY <1>2, <1>3, <1>4, <1>5, <1>6, TurnEndsInv

LEMMA LeaveInv == ASSUME TurnInv, NEW t \in Turns, Leave(t) PROVE TurnInv'
<1> DEFINE changed == [turn[t] EXCEPT !.phase = "over", !.fate = "left"]
<1>1. turn[t] \in Turn
      BY DEF TurnInv, ChatTurnTypeOK
<1>2. /\ turn[t].phase \in {"announced", "running", "answered"} /\ Commits(t, changed)
      /\ Releases(t) /\ UNCHANGED said
      BY <1>1 DEF Leave
<1>3. /\ changed \in Turn /\ changed.phase = "over" /\ changed.kind = turn[t].kind
      /\ changed.process = turn[t].process /\ changed.after = turn[t].after
      /\ changed.seen = turn[t].seen /\ changed.fate # "none"
      BY <1>1 DEF Turn
<1>4. "final" \in turn[t].seen => <<t, "assistant">> \in Range(said)
      BY DEF TurnInv, SeenIsSaid
<1>5. Working(t)
      BY <1>2 DEF Working
<1> HIDE DEF changed
<1> QED BY <1>2, <1>3, <1>4, <1>5, TurnEndsInv

LEMMA LeaveUnstartedInv == ASSUME TurnInv, NEW t \in Turns, LeaveUnstarted(t) PROVE TurnInv'
<1> DEFINE r == [turn[t] EXCEPT !.phase = "over", !.fate = "left", !.wrote = "none",
                                !.fresh = FALSE]
<1>1. turn[t] \in Turn /\ turn \in [Turns -> Turn]
      BY DEF TurnInv, ChatTurnTypeOK
<1>2. turn[t].kind = "stream" /\ turn[t].phase = "opened"
      BY DEF LeaveUnstarted
<1>3. RollsBack({t}, [turn EXCEPT ![t].phase = "over", ![t].fate = "left"])
      BY DEF LeaveUnstarted
<1>4. UNCHANGED <<said, flight, chatSession, stored>>
      BY <1>3 DEF LeaveUnstarted, RollsBack
<1>5. /\ r \in Turn /\ r.phase = "over" /\ r.after = turn[t].after /\ r.kind = turn[t].kind
      /\ r.process = turn[t].process /\ ~r.fresh /\ r.seen = turn[t].seen /\ r.fate = "left"
      BY <1>1 DEF Turn
<1>6. turn' = [turn EXCEPT ![t] = r] /\ rowLock' \in Turns \cup {NoTurn}
  <2> DEFINE lost == [turn EXCEPT ![t].phase = "over", ![t].fate = "left"]
             K(u) == [lost[u] EXCEPT !.wrote = "none", !.fresh = FALSE]
  <2>1. /\ rowLock' = IF rowLock \in {t} THEN NoTurn ELSE rowLock
        /\ turn' = [u \in Turns |-> IF u \in {t} THEN K(u) ELSE turn[u]]
        BY <1>3 DEF RollsBack
  <2>2. K(t) = r
        BY <1>1
  <2> HIDE DEF K, lost
  <2>3. rowLock' \in Turns \cup {NoTurn}
        BY <2>1 DEF TurnInv, ChatTurnTypeOK
  <2> HIDE DEF r
  <2>4. turn' = [u \in Turns |-> IF u = t THEN r ELSE turn[u]]
        BY <2>1, <2>2
  <2> QED BY <1>1, <2>3, <2>4
<1> HIDE DEF r
<1>7. \A u \in Turns : turn'[u] = IF u = t THEN r ELSE turn[u]
      BY <1>5, <1>6, TurnRows
<1>8. InFlight(t) /\ ~Working(t)' /\ turn[t].seen = {}
      BY <1>2, <1>5, <1>7 DEF InFlight, Working, TurnInv, PhaseFits
<1>9. GuardsFit' /\ flight' \in [Processes -> Turns \cup {NoTurn}]
      BY <1>4, <1>5, <1>6, <1>8, GuardsStay
<1>10. ChatTurnTypeOK'
      BY <1>4, <1>5, <1>6, <1>9, TurnRows DEF TurnInv, ChatTurnTypeOK
<1>11. RunningHasWork'
      BY <1>5, <1>6, RunsOn
<1>12. SeenIsSaid(t)' /\ PhaseFits(t)' /\ SeenIsKept(t)'
      BY <1>5, <1>7, <1>8 DEF SeenIsSaid, PhaseFits, SeenIsKept
<1>13. AfterFits(t)'
  <2>1. AfterFits(t) /\ \A u \in turn[t].after : u \in Turns /\ u # t
        BY <1>1, <1>2 DEF TurnInv, AfterFits, Turn
  <2> QED BY <1>5, <1>7, <2>1 DEF AfterFits
<1> QED BY <1>2, <1>4, <1>5, <1>6, <1>8, <1>9, <1>10, <1>11, <1>12, <1>13, OneTurnInv

-----------------------------------------------------------------------------
(* The steps of a process and of the owner                                   *)

LEMMA CrashInv == ASSUME TurnInv, NEW p \in Processes, Crash(p) PROVE TurnInv'
<1> DEFINE who == {t \in Turns : turn[t].process = p /\ InFlight(t)}
           lost == [t \in Turns |-> [turn[t] EXCEPT !.phase = "over", !.fate = "crashed"]]
           R(t) == [turn[t] EXCEPT !.phase = "over", !.fate = "crashed", !.wrote = "none",
                                   !.fresh = FALSE]
<1>1. /\ turn \in [Turns -> Turn] /\ \A t \in Turns : turn[t] \in Turn
      /\ flight \in [Processes -> Turns \cup {NoTurn}]
      BY DEF TurnInv, ChatTurnTypeOK
<1>2. /\ who # {} /\ flight' = [flight EXCEPT ![p] = NoTurn]
      /\ UNCHANGED <<said, chatSession, stored>>
      /\ rowLock' = IF rowLock \in who THEN NoTurn ELSE rowLock
      /\ turn' = [t \in Turns |-> IF t \in who
                                  THEN [lost[t] EXCEPT !.wrote = "none", !.fresh = FALSE]
                                  ELSE turn[t]]
      BY DEF Crash, RollsBack
<1>3. \A t \in Turns : [lost[t] EXCEPT !.wrote = "none", !.fresh = FALSE] = R(t)
      BY <1>1
<1>4. \A t \in Turns : /\ R(t) \in Turn /\ R(t).phase = "over" /\ R(t).fate = "crashed"
                       /\ ~R(t).fresh /\ R(t).after = turn[t].after /\ R(t).kind = turn[t].kind
                       /\ R(t).process = turn[t].process /\ R(t).seen = turn[t].seen
  <2> SUFFICES ASSUME NEW t \in Turns
               PROVE  /\ R(t) \in Turn /\ R(t).phase = "over" /\ R(t).fate = "crashed"
                      /\ ~R(t).fresh /\ R(t).after = turn[t].after /\ R(t).kind = turn[t].kind
                      /\ R(t).process = turn[t].process /\ R(t).seen = turn[t].seen
      OBVIOUS
  <2>1. turn[t] \in Turn
        BY <1>1
  <2> QED BY <2>1 DEF Turn
<1>5. \A t \in Turns : t \in who <=> turn[t].process = p /\ InFlight(t)
      OBVIOUS
<1>6. who \subseteq Turns
      OBVIOUS
<1> HIDE DEF R, lost, who
<1>7. \A t \in Turns : turn'[t] = IF t \in who THEN R(t) ELSE turn[t]
      BY <1>2, <1>3
<1>8. ChatTurnTypeOK'
  <2>1. turn' \in [Turns -> Turn]
        BY <1>1, <1>2, <1>3, <1>4
  <2> QED BY <1>1, <1>2, <2>1 DEF TurnInv, ChatTurnTypeOK
<1>9. \A t \in Turns : Working(t)' <=> Working(t) /\ t \notin who
      BY <1>4, <1>7 DEF Working
<1>10. OneCreates'
  <2>1. \A t \in Turns : turn'[t].fresh => turn[t].fresh /\ t \notin who
        BY <1>4, <1>7
  <2> QED BY <1>2, <1>7, <1>9, <2>1 DEF TurnInv, OneCreates
<1>11. \A t \in Turns : turn[t].phase = "over" => turn'[t] = turn[t]
      BY <1>5, <1>7 DEF InFlight
<1>12. ASSUME NEW t \in Turns
       PROVE  SeenIsSaid(t)' /\ PhaseFits(t)' /\ SeenIsKept(t)' /\ AfterFits(t)'
  <2>1. SeenIsSaid(t) /\ PhaseFits(t) /\ SeenIsKept(t) /\ AfterFits(t)
        BY DEF TurnInv
  <2>2. Deleted' <=> Deleted
        BY <1>2 DEF Deleted
  <2>3. \A u \in turn[t].after : u \in Turns /\ turn'[u] = turn[u]
        BY <1>1, <1>11, <2>1 DEF AfterFits, Turn
  <2>4. CASE t \in who
    <3>1. /\ turn'[t].phase = "over" /\ turn'[t].fate = "crashed"
          /\ turn'[t].after = turn[t].after /\ turn'[t].kind = turn[t].kind
          /\ turn'[t].seen = turn[t].seen
          BY <1>4, <1>7, <2>4
    <3>2. SeenIsSaid(t)' /\ PhaseFits(t)' /\ SeenIsKept(t)'
          BY <1>2, <2>1, <3>1 DEF SeenIsSaid, PhaseFits, SeenIsKept
    <3>3. AfterFits(t)'
          BY <2>1, <2>3, <3>1 DEF AfterFits
    <3> QED BY <3>2, <3>3
  <2>5. CASE t \notin who
    <3>1. turn'[t] = turn[t]
          BY <1>7, <2>5
    <3>2. SeenIsSaid(t)' /\ PhaseFits(t)' /\ SeenIsKept(t)'
          BY <1>2, <2>1, <2>2, <3>1 DEF SeenIsSaid, PhaseFits, SeenIsKept
    <3>3. AfterFits(t)'
          BY <2>1, <2>2, <2>3, <3>1 DEF AfterFits
    <3> QED BY <3>2, <3>3
  <2> QED BY <2>4, <2>5
<1>13. GuardsFit'
  <2>1. \A q \in Processes : flight'[q] = IF q = p THEN NoTurn ELSE flight[q]
        BY <1>1, <1>2
  <2>2. GuardsFit /\ \A u \in Turns : turn[u].process \in Processes
        BY <1>1 DEF TurnInv, Turn
  <2>3. ASSUME NEW u \in Turns, turn'[u].kind = "stream", InFlight(u)'
        PROVE  flight'[turn'[u].process] = u
    <3>1. u \notin who
          BY <1>4, <1>7, <2>3 DEF InFlight
    <3>2. turn'[u] = turn[u] /\ InFlight(u) /\ turn[u].process # p
          BY <1>5, <1>7, <2>3, <3>1 DEF InFlight
    <3> QED BY <2>1, <2>2, <2>3, <3>2 DEF GuardsFit
  <2>4. ASSUME NEW q \in Processes, flight'[q] # NoTurn
        PROVE  /\ turn'[flight'[q]].kind = "stream" /\ turn'[flight'[q]].process = q
               /\ \/ turn'[flight'[q]].phase \notin {"idle", "over"}
                  \/ turn'[flight'[q]].fate = "left" /\ turn'[flight'[q]].seen = {}
    <3>1. flight'[q] = flight[q] /\ flight[q] \in Turns /\ q # p
          BY <1>1, <2>1, <2>4
    <3>2. /\ turn[flight[q]].kind = "stream" /\ turn[flight[q]].process = q
          /\ InFlight(flight[q]) \/ (turn[flight[q]].fate = "left" /\ turn[flight[q]].seen = {})
          BY <2>2, <2>4, <3>1 DEF GuardsFit
    <3>3. turn'[flight[q]] = turn[flight[q]]
          BY <1>5, <1>7, <3>1, <3>2
    <3> QED BY <3>1, <3>2, <3>3 DEF InFlight
  <2> QED BY <2>3, <2>4 DEF GuardsFit, InFlight
<1>14. RunningHasWork'
  <2>1. PICK t \in who : TRUE
        BY <1>2
  <2>2. t \in Turns /\ turn'[t].fate # "none"
        BY <1>4, <1>6, <1>7, <2>1
  <2> QED BY <2>2 DEF RunningHasWork
<1> QED BY <1>8, <1>10, <1>12, <1>13, <1>14 DEF TurnInv

LEMMA ArchiveInv == ASSUME TurnInv, NEW a \in BOOLEAN, ArchiveSession(a) PROVE TurnInv'
<1>1. /\ chatSession \in [state : {"absent", "present", "deleted"}, status : TurnStatuses,
                          archived : BOOLEAN]
      /\ chatSession' = [chatSession EXCEPT !.archived = a]
      /\ UNCHANGED <<said, stored, rowLock, flight, turn>>
      BY DEF TurnInv, ChatTurnTypeOK, ArchiveSession
<1>2. /\ chatSession'.state = chatSession.state /\ chatSession'.status = chatSession.status
      /\ chatSession' \in [state : {"absent", "present", "deleted"}, status : TurnStatuses,
                           archived : BOOLEAN]
      BY <1>1
<1>3. ChatTurnTypeOK'
      BY <1>1, <1>2 DEF TurnInv, ChatTurnTypeOK
<1>4. OneCreates' /\ GuardsFit' /\ RunningHasWork'
      BY <1>1, <1>2 DEF TurnInv, OneCreates, GuardsFit, RunningHasWork, Working, InFlight, Present
<1>5. \A t \in Turns : SeenIsSaid(t)' /\ PhaseFits(t)' /\ SeenIsKept(t)' /\ AfterFits(t)'
  <2> SUFFICES ASSUME NEW t \in Turns
               PROVE  SeenIsSaid(t)' /\ PhaseFits(t)' /\ SeenIsKept(t)' /\ AfterFits(t)'
      OBVIOUS
  <2>1. SeenIsSaid(t) /\ PhaseFits(t) /\ SeenIsKept(t) /\ AfterFits(t)
        BY DEF TurnInv
  <2> QED BY <1>1, <1>2, <2>1 DEF SeenIsSaid, PhaseFits, SeenIsKept, AfterFits, Deleted
<1> QED BY <1>3, <1>4, <1>5 DEF TurnInv

LEMMA DeleteInv == ASSUME TurnInv, DeleteSession PROVE TurnInv'
<1>1. /\ chatSession \in [state : {"absent", "present", "deleted"}, status : TurnStatuses,
                          archived : BOOLEAN]
      /\ chatSession.state = "present"
      /\ chatSession' = [chatSession EXCEPT !.state = "deleted"]
      /\ stored' = {} /\ UNCHANGED <<said, rowLock, flight, turn>>
      BY DEF TurnInv, ChatTurnTypeOK, DeleteSession, Present
<1>2. /\ chatSession'.state = "deleted" /\ Deleted'
      /\ chatSession' \in [state : {"absent", "present", "deleted"}, status : TurnStatuses,
                           archived : BOOLEAN]
      BY <1>1 DEF Deleted
<1>3. ChatTurnTypeOK'
      BY <1>1, <1>2 DEF TurnInv, ChatTurnTypeOK
<1>4. OneCreates' /\ GuardsFit' /\ RunningHasWork'
      BY <1>1, <1>2 DEF TurnInv, OneCreates, GuardsFit, RunningHasWork, Working, InFlight, Present
<1>5. \A t \in Turns : SeenIsSaid(t)' /\ PhaseFits(t)' /\ SeenIsKept(t)' /\ AfterFits(t)'
  <2> SUFFICES ASSUME NEW t \in Turns
               PROVE  SeenIsSaid(t)' /\ PhaseFits(t)' /\ SeenIsKept(t)' /\ AfterFits(t)'
      OBVIOUS
  <2>1. SeenIsSaid(t) /\ PhaseFits(t) /\ AfterFits(t)
        BY DEF TurnInv
  <2> QED BY <1>1, <1>2, <2>1 DEF SeenIsSaid, PhaseFits, SeenIsKept, AfterFits
<1> QED BY <1>3, <1>4, <1>5 DEF TurnInv

LEMMA TurnStutterInv == ASSUME TurnInv, UNCHANGED chatTurnVars PROVE TurnInv'
<1>1. UNCHANGED <<chatSession, said, stored, rowLock, flight, turn>>
      BY DEF chatTurnVars
<1>2. ChatTurnTypeOK' /\ OneCreates' /\ GuardsFit' /\ RunningHasWork'
      BY <1>1 DEF TurnInv, ChatTurnTypeOK, OneCreates, GuardsFit, RunningHasWork, Working,
                  InFlight, Present
<1>3. \A t \in Turns : SeenIsSaid(t)' /\ PhaseFits(t)' /\ SeenIsKept(t)' /\ AfterFits(t)'
      BY <1>1 DEF TurnInv, SeenIsSaid, PhaseFits, SeenIsKept, AfterFits, Deleted
<1> QED BY <1>2, <1>3 DEF TurnInv

LEMMA TurnStepInv == TurnInv /\ [ChatTurnNext]_chatTurnVars => TurnInv'
<1> SUFFICES ASSUME TurnInv, [ChatTurnNext]_chatTurnVars PROVE TurnInv'
    OBVIOUS
<1>1. CASE \E t \in Turns :
              \/ Acquire(t) \/ OpenStream(t) \/ OpenPlain(t) \/ StartRefused(t) \/ Announce(t)
              \/ CommitStart(t) \/ Answer(t) \/ RunFails(t) \/ Break(t) \/ CommitTurn(t)
              \/ LeaveUnstarted(t) \/ Leave(t)
      BY <1>1, AcquireInv, OpenStreamInv, OpenPlainInv, StartRefusedInv, AnnounceInv,
         CommitStartInv, AnswerInv, RunFailsInv, BreakInv, CommitTurnInv, LeaveUnstartedInv,
         LeaveInv
<1>2. CASE \E p \in Processes : Crash(p)
      BY <1>2, CrashInv
<1>3. CASE \E archived \in BOOLEAN : ArchiveSession(archived)
      BY <1>3, ArchiveInv
<1>4. CASE DeleteSession
      BY <1>4, DeleteInv
<1>5. CASE UNCHANGED chatTurnVars
      BY <1>5, TurnStutterInv
<1> QED BY <1>1, <1>2, <1>3, <1>4, <1>5 DEF ChatTurnNext

-----------------------------------------------------------------------------
(* The theorems about the turns                                              *)

\* The invariant holds of the turns of a session in every state they reach.
THEOREM TurnInvHolds == ChatTurnSpec => []TurnInv
<1>1. ChatTurnInit => TurnInv
      BY TurnInitInv
<1>2. TurnInv /\ [ChatTurnNext]_chatTurnVars => TurnInv'
      BY TurnStepInv
<1> QED BY <1>1, <1>2, PTL DEF ChatTurnSpec

\* Rows, messages, guards and turns keep their types: no transaction commits a
\* message that was not recorded.
THEOREM TurnsTypeCorrect == ChatTurnSpec => []ChatTurnTypeOK
<1>1. TurnInv => ChatTurnTypeOK
      BY DEF TurnInv
<1> QED BY <1>1, TurnInvHolds, PTL

\* What the client of any turn was sent is in the tables once the turn is over;
\* a session is not left running but by a client that left or a crash; a stream
\* that follows a final event is given that answer; and a guard is a turn's.
\* However many turns and processes there are, whoever leaves or crashes.
THEOREM TurnsAreAlwaysWhole == ChatTurnSpec => []TurnsAreWhole
<1>1. TurnInv => TurnsAreWhole
      BY TurnInvImplies
<1> QED BY <1>1, TurnInvHolds, PTL

-----------------------------------------------------------------------------
(* The pieces of an answer                                                   *)

\* What a call streams in one attempt.
Streamed(call, attempt) == [i \in 1..MaxPieces |-> <<call, attempt, i>>]

\* All pieces are of calls before this one.
AllBefore(all, call) == \A i \in 1..Len(all) : all[i][1] < call

\* The last n pieces are the beginning of the answer.
Follows(all, n, answer) ==
    /\ n \in 0..Len(all) /\ n <= Len(answer)
    /\ \A i \in 1..Len(all) : i > Len(all) - n => all[i] = answer[i - (Len(all) - n)]

\* The last n pieces are those of this attempt, the others were there before it.
Streaming(all, n, call, attempt) ==
    /\ Follows(all, n, Streamed(call, attempt))
    /\ \A i \in 1..(Len(all) - n) :
           all[i][1] < call \/ (all[i][1] = call /\ all[i][2] < attempt)

\* The last pieces are the beginning of the answer, the others are of other attempts.
ThreadAnswers(all, answer) ==
    /\ Len(answer) > 0
    /\ \A i \in 1..Len(answer) : answer[i][1] = answer[1][1] /\ answer[i][2] = answer[1][2]
    /\ \E n \in 0..Len(all) :
           /\ Follows(all, n, answer)
           /\ \A i \in 1..(Len(all) - n) :
                  ~(all[i][1] = answer[1][1] /\ all[i][2] = answer[1][2])

LEMMA PieceFacts ==
    /\ \A c \in Nat, a \in 1..2, i \in 0..MaxPieces : <<c, a, i>> \in Piece
    /\ \A p \in Piece : p[1] \in Nat /\ p[2] \in 1..2
BY DEF Piece

LEMMA StreamedFacts ==
    ASSUME NEW c \in Nat, NEW a \in 1..2
    PROVE  /\ Streamed(c, a) \in Seq(Piece) /\ Len(Streamed(c, a)) = MaxPieces
           /\ \A i \in 1..MaxPieces : Streamed(c, a)[i] = <<c, a, i>>
<1>1. MaxPieces \in Nat /\ \A i \in 1..MaxPieces : i \in 0..MaxPieces
      BY ChatRunAssumption
<1>2. \A i \in 1..MaxPieces : <<c, a, i>> \in Piece
      BY <1>1, PieceFacts
<1>3. Streamed(c, a) \in [1..MaxPieces -> Piece]
      BY <1>2 DEF Streamed
<1>4. Streamed(c, a) \in Seq(Piece)
      BY <1>1, <1>3, SeqDef
<1>5. DOMAIN Streamed(c, a) = 1..MaxPieces
      BY DEF Streamed
<1>6. Len(Streamed(c, a)) = MaxPieces
      BY <1>1, <1>4, <1>5, LenProperties
<1> QED BY <1>4, <1>6 DEF Streamed

\* A piece goes from the one sequence to the other.
LEMMA PassFacts ==
    ASSUME NEW S, NEW s \in Seq(S), NEW t \in Seq(S), t # <<>>
    PROVE  /\ Tail(t) \in Seq(S) /\ Append(s, Head(t)) \in Seq(S)
           /\ Append(s, Head(t)) \o Tail(t) = s \o t
<1>1. Head(t) \in S /\ Tail(t) \in Seq(S) /\ Len(t) \in Nat \ {0}
      BY HeadTailProperties, EmptySeq
<1>2. Append(s, Head(t)) \in Seq(S) /\ Append(s, Head(t)) = s \o <<Head(t)>>
      BY <1>1, AppendProperties, AppendIsConcat
<1>3. <<Head(t)>> \in Seq(S) /\ <<Head(t)>> \o Tail(t) = t
  <2>1. Len(t) \in Nat /\ 1 \in 1..Len(t) /\ Len(t) \in 1..Len(t)
        BY <1>1
  <2>2. SubSeq(t, 1, Len(t)) = <<t[1]>> \o SubSeq(t, 2, Len(t))
        BY <2>1, SubSeqRecursiveFirst
  <2>3. SubSeq(t, 1, Len(t)) = t /\ Tail(t) = SubSeq(t, 2, Len(t)) /\ Head(t) = t[1]
        BY SubSeqFull, TailIsSubSeq
  <2> QED BY <1>1, <2>2, <2>3
<1>4. (s \o <<Head(t)>>) \o Tail(t) = s \o (<<Head(t)>> \o Tail(t))
      BY <1>1, <1>3, ConcatAssociative
<1> QED BY <1>1, <1>2, <1>3, <1>4

LEMMA AppendToQueue ==
    ASSUME NEW S, NEW s \in Seq(S), NEW t \in Seq(S), NEW e \in S
    PROVE  /\ Append(t, e) \in Seq(S) /\ <<e>> \in Seq(S)
           /\ s \o Append(t, e) = Append(s \o t, e) /\ s \o (t \o <<e>>) = Append(s \o t, e)
<1>1. s \o t \in Seq(S) /\ <<e>> \in Seq(S) /\ Append(t, e) \in Seq(S)
      BY ConcatProperties, AppendProperties
<1>2. (s \o t) \o <<e>> = s \o (t \o <<e>>)
      BY <1>1, ConcatAssociative
<1>3. Append(s \o t, e) = (s \o t) \o <<e>> /\ Append(t, e) = t \o <<e>>
      BY <1>1, AppendIsConcat
<1> QED BY <1>1, <1>2, <1>3

LEMMA StreamBegins ==
    ASSUME NEW all \in Seq(Piece), NEW c \in Nat
    PROVE  /\ AllBefore(all, c) => Streaming(all, 0, c, 1) /\ AllBefore(all, c + 1)
           /\ \A n : Streaming(all, n, c, 1) => Streaming(all, 0, c, 2)
           /\ \A n, a : a \in 1..2 /\ Streaming(all, n, c, a) => AllBefore(all, c + 1)
<1>1. Len(all) \in Nat /\ \A i \in 1..Len(all) : all[i][1] \in Nat /\ all[i][2] \in 1..2
      BY LenProperties, ElementOfSeq, PieceFacts
<1>2. \A a \in 1..2 : Follows(all, 0, Streamed(c, a))
  <2>1. MaxPieces \in Nat
        BY ChatRunAssumption
  <2> QED BY <1>1, <2>1, StreamedFacts DEF Follows
<1>3. AllBefore(all, c) => Streaming(all, 0, c, 1) /\ AllBefore(all, c + 1)
      BY <1>1, <1>2 DEF Streaming, AllBefore
<1>4. ASSUME NEW n, NEW a \in 1..2, Streaming(all, n, c, a), NEW i \in 1..Len(all)
      PROVE  all[i][1] < c \/ (all[i][1] = c /\ all[i][2] <= a)
  <2>1. n \in 0..Len(all) /\ n <= MaxPieces /\ MaxPieces \in Nat
        BY <1>4, StreamedFacts, ChatRunAssumption DEF Streaming, Follows
  <2>2. CASE i > Len(all) - n
    <3>1. i - (Len(all) - n) \in 1..MaxPieces
          BY <1>1, <2>1, <2>2
    <3>2. all[i] = Streamed(c, a)[i - (Len(all) - n)]
          BY <1>4, <2>2 DEF Streaming, Follows
    <3>3. all[i] = <<c, a, i - (Len(all) - n)>>
          BY <3>1, <3>2, StreamedFacts
    <3> QED BY <3>3
  <2>3. CASE ~(i > Len(all) - n)
    <3>1. i \in 1..(Len(all) - n)
          BY <1>1, <2>1, <2>3
    <3> QED BY <1>1, <1>4, <3>1 DEF Streaming
  <2> QED BY <2>2, <2>3
<1>5. ASSUME NEW n, Streaming(all, n, c, 1) PROVE Streaming(all, 0, c, 2)
  <2>1. \A i \in 1..Len(all) : all[i][1] < c \/ (all[i][1] = c /\ all[i][2] <= 1)
        BY <1>4, <1>5
  <2> QED BY <1>1, <1>2, <2>1 DEF Streaming
<1>6. ASSUME NEW n, NEW a \in 1..2, Streaming(all, n, c, a) PROVE AllBefore(all, c + 1)
  <2>1. \A i \in 1..Len(all) : all[i][1] < c \/ (all[i][1] = c /\ all[i][2] <= a)
        BY <1>4, <1>6
  <2> QED BY <1>1, <2>1 DEF AllBefore
<1> QED BY <1>3, <1>5, <1>6

LEMMA NextPieceFacts ==
    ASSUME NEW all \in Seq(Piece), NEW c \in Nat, NEW a \in 1..2, NEW n,
           Streaming(all, n, c, a), n < MaxPieces
    PROVE  Streaming(Append(all, <<c, a, n + 1>>), n + 1, c, a)
<1> DEFINE longer == Append(all, <<c, a, n + 1>>)
<1>1. Len(all) \in Nat /\ n \in 0..Len(all) /\ MaxPieces \in Nat
      BY LenProperties, ChatRunAssumption DEF Streaming, Follows
<1>2. n + 1 \in 1..MaxPieces /\ n + 1 \in 0..MaxPieces
      BY <1>1
<1>3. <<c, a, n + 1>> \in Piece
      BY <1>2, PieceFacts
<1>4. /\ Len(longer) = Len(all) + 1 /\ longer[Len(all) + 1] = <<c, a, n + 1>>
      /\ \A i \in 1..Len(all) : longer[i] = all[i]
      BY <1>3, AppendProperties
<1>5. Streamed(c, a)[n + 1] = <<c, a, n + 1>> /\ Len(Streamed(c, a)) = MaxPieces
      BY <1>2, StreamedFacts
<1> HIDE DEF longer
<1>6. ASSUME NEW i \in 1..Len(longer), i > Len(longer) - (n + 1)
      PROVE  longer[i] = Streamed(c, a)[i - (Len(longer) - (n + 1))]
  <2>1. i \in 1..(Len(all) + 1) /\ i > Len(all) - n /\ Len(longer) - (n + 1) = Len(all) - n
        BY <1>1, <1>4, <1>6
  <2>2. CASE i = Len(all) + 1
    <3>1. i - (Len(all) - n) = n + 1
          BY <1>1, <2>2
    <3> QED BY <1>4, <1>5, <2>1, <2>2, <3>1
  <2>3. CASE i # Len(all) + 1
    <3>1. i \in 1..Len(all)
          BY <1>1, <2>1, <2>3
    <3>2. all[i] = Streamed(c, a)[i - (Len(all) - n)]
          BY <2>1, <3>1 DEF Streaming, Follows
    <3> QED BY <1>4, <2>1, <3>1, <3>2
  <2> QED BY <2>2, <2>3
<1>7. Follows(longer, n + 1, Streamed(c, a))
  <2>1. n + 1 \in 0..Len(longer) /\ n + 1 <= Len(Streamed(c, a))
        BY <1>1, <1>2, <1>4, <1>5
  <2> QED BY <1>6, <2>1 DEF Follows
<1>8. \A i \in 1..(Len(longer) - (n + 1)) :
          longer[i][1] < c \/ (longer[i][1] = c /\ longer[i][2] < a)
  <2> SUFFICES ASSUME NEW i \in 1..(Len(longer) - (n + 1))
               PROVE  longer[i][1] < c \/ (longer[i][1] = c /\ longer[i][2] < a)
      OBVIOUS
  <2>1. i \in 1..(Len(all) - n) /\ i \in 1..Len(all)
        BY <1>1, <1>4
  <2> QED BY <1>4, <2>1 DEF Streaming
<1>9. Streaming(longer, n + 1, c, a)
      BY <1>7, <1>8 DEF Streaming
<1> QED BY <1>9 DEF longer

\* The end of a stream, and an answer in one piece.
LEMMA AnswerFacts ==
    ASSUME NEW all \in Seq(Piece), NEW c \in Nat
    PROVE  /\ \A n, a : a \in 1..2 /\ Streaming(all, n, c, a) => ThreadAnswers(all, Streamed(c, a))
           /\ AllBefore(all, c) => ThreadAnswers(Append(all, <<c, 1, 0>>), <<<<c, 1, 0>>>>)
<1>1. Len(all) \in Nat /\ \A i \in 1..Len(all) : all[i][1] \in Nat /\ all[i][2] \in 1..2
      BY LenProperties, ElementOfSeq, PieceFacts
<1>2. ASSUME NEW n, NEW a \in 1..2, Streaming(all, n, c, a) PROVE ThreadAnswers(all, Streamed(c, a))
  <2> DEFINE answer == Streamed(c, a)
  <2>1. n \in 0..Len(all) /\ Follows(all, n, answer)
        BY <1>2 DEF Streaming, Follows
  <2>2. MaxPieces \in Nat \ {0} /\ Len(answer) = MaxPieces
        BY ChatRunAssumption, StreamedFacts
  <2>3. \A i \in 1..Len(answer) : answer[i][1] = c /\ answer[i][2] = a
    <3>1. \A i \in 1..MaxPieces : answer[i] = <<c, a, i>>
          BY StreamedFacts
    <3> HIDE DEF answer
    <3> QED BY <2>2, <3>1
  <2>4. \A i \in 1..(Len(all) - n) : i \in 1..Len(all)
        BY <1>1, <2>1
  <2>5. \A i \in 1..(Len(all) - n) : ~(all[i][1] = c /\ all[i][2] = a)
        BY <1>1, <1>2, <2>4 DEF Streaming
  <2> HIDE DEF answer
  <2>6. 1 \in 1..Len(answer) /\ answer[1][1] = c /\ answer[1][2] = a
        BY <2>2, <2>3
  <2>7. ThreadAnswers(all, answer)
        BY <2>1, <2>2, <2>3, <2>5, <2>6 DEF ThreadAnswers
  <2> QED BY <2>7 DEF answer
<1>3. ASSUME AllBefore(all, c) PROVE ThreadAnswers(Append(all, <<c, 1, 0>>), <<<<c, 1, 0>>>>)
  <2> DEFINE piece == <<c, 1, 0>>
             longer == Append(all, piece)
             answer == <<piece>>
  <2>1. piece \in Piece
    <3>1. 0 \in 0..MaxPieces
          BY ChatRunAssumption
    <3> QED BY <3>1, PieceFacts
  <2>2. piece[1] = c /\ piece[2] = 1
        OBVIOUS
  <2> HIDE DEF piece
  <2>3. Len(answer) = 1 /\ answer[1] = piece
        OBVIOUS
  <2>4. /\ Len(longer) = Len(all) + 1 /\ longer[Len(all) + 1] = piece
        /\ \A i \in 1..Len(all) : longer[i] = all[i]
        BY <2>1, AppendProperties
  <2> HIDE DEF longer, answer
  <2>5. Follows(longer, 1, answer)
    <3>1. 1 \in 0..Len(longer) /\ 1 <= Len(answer) /\ Len(longer) - 1 = Len(all)
          BY <1>1, <2>3, <2>4
    <3>2. ASSUME NEW i \in 1..Len(longer), i > Len(longer) - 1
          PROVE  longer[i] = answer[i - (Len(longer) - 1)]
      <4>1. i = Len(all) + 1 /\ i - (Len(longer) - 1) = 1
            BY <1>1, <2>4, <3>2
      <4> QED BY <2>3, <2>4, <4>1
    <3> QED BY <3>1, <3>2 DEF Follows
  <2>6. \A i \in 1..(Len(longer) - 1) : ~(longer[i][1] = c)
    <3> SUFFICES ASSUME NEW i \in 1..(Len(longer) - 1) PROVE longer[i][1] # c
        OBVIOUS
    <3>1. i \in 1..Len(all) /\ longer[i] = all[i]
          BY <1>1, <2>4
    <3>2. all[i][1] < c /\ all[i][1] \in Nat
          BY <1>1, <1>3, <3>1 DEF AllBefore
    <3> QED BY <3>1, <3>2
  <2>7. 1 \in 0..Len(longer)
        BY <1>1, <2>4
  <2>8. \A i \in 1..Len(answer) : answer[i] = piece
        BY <2>3
  <2>9. ThreadAnswers(longer, answer)
        BY <2>2, <2>3, <2>5, <2>6, <2>7, <2>8 DEF ThreadAnswers
  <2> QED BY <2>9 DEF longer, answer, piece
<1> QED BY <1>2, <1>3

\* What was sent is the beginning of the answer, if it is of no other attempt.
LEMMA SentIsBeginning ==
    ASSUME NEW sent \in Seq(Piece), NEW answer \in Seq(Piece), ThreadAnswers(sent, answer),
           \A p \in Range(sent) : p[1] = answer[1][1] /\ p[2] = answer[1][2]
    PROVE  /\ IsPrefix(sent, answer)
           /\ sent \o SubSeq(answer, Len(sent) + 1, Len(answer)) = answer
<1>1. Len(sent) \in Nat /\ Len(answer) \in Nat /\ Len(answer) > 0
      BY LenProperties DEF ThreadAnswers
<1>2. PICK n \in 0..Len(sent) :
          /\ Follows(sent, n, answer)
          /\ \A i \in 1..(Len(sent) - n) : ~(sent[i][1] = answer[1][1] /\ sent[i][2] = answer[1][2])
      BY DEF ThreadAnswers
<1>3. \A i \in 1..Len(sent) : sent[i] \in Range(sent)
      BY RangeEquality
<1>4. n = Len(sent)
  <2> SUFFICES ASSUME n < Len(sent) PROVE FALSE
      BY <1>1
  <2>1. 1 \in 1..(Len(sent) - n) /\ 1 \in 1..Len(sent)
        BY <1>1
  <2> QED BY <1>2, <1>3, <2>1
<1>5. Len(sent) <= Len(answer) /\ \A i \in 1..Len(sent) : sent[i] = answer[i]
  <2>1. \A i \in 1..Len(sent) : i > Len(sent) - n /\ i - (Len(sent) - n) = i
        BY <1>1, <1>4
  <2>2. n <= Len(answer)
        BY <1>2 DEF Follows
  <2>3. ASSUME NEW i \in 1..Len(sent) PROVE sent[i] = answer[i]
    <3>1. sent[i] = answer[i - (Len(sent) - n)]
          BY <1>2, <2>1 DEF Follows
    <3> QED BY <2>1, <3>1
  <2> QED BY <1>4, <2>2, <2>3
<1>6. sent = SubSeq(answer, 1, Len(sent))
  <2> DEFINE start == SubSeq(answer, 1, Len(sent))
  <2>1. \A i \in 1..Len(sent) : answer[i] \in Piece
        BY <1>1, <1>5, ElementOfSeq
  <2>2. /\ start \in Seq(Piece)
        /\ Len(start) = IF 1 <= Len(sent) THEN Len(sent) - 1 + 1 ELSE 0
        /\ \A i \in 1..(Len(sent) - 1 + 1) : start[i] = answer[1 + i - 1]
        BY <1>1, <2>1, SubSeqProperties
  <2> HIDE DEF start
  <2>3. Len(start) = Len(sent) /\ \A i \in 1..Len(sent) : start[i] = answer[i]
        BY <1>1, <2>2
  <2>4. sent = start
        BY <1>5, <2>2, <2>3, SeqEqual
  <2> QED BY <2>4 DEF start
<1>7. SubSeq(sent, 1, Len(sent)) = sent
      BY SubSeqFull
<1>8. SubSeq(answer, 1, Len(sent)) \o SubSeq(answer, Len(sent) + 1, Len(answer)) = answer
  <2>1. 1 \in 1..Len(answer) + 1 /\ Len(sent) \in 1 - 1..Len(answer) /\ Len(answer) \in Len(sent)..Len(answer)
        BY <1>1, <1>5
  <2> QED BY <2>1, ConcatAdjacentSubSeq, SubSeqFull
<1> QED BY <1>5, <1>6, <1>7, <1>8 DEF IsPrefix

-----------------------------------------------------------------------------
(* The inductive invariant of a run                                          *)

\* While a tool is at work its row is the last, and no other is running.
ToolsFit ==
    /\ runner.pc = "tool" => toolCalls # <<>>
    /\ \A i \in DOMAIN toolCalls :
           toolCalls[i] = "running" => runner.pc = "tool" /\ i = Len(toolCalls)

\* A thread has failed only when it has ended, and has chunks without an audit row
\* only when that is what it failed of.
ThreadFits ==
    /\ runner.pc # "ended" => runner.error = "none"
    /\ ~(found.results \subseteq found.logged) => runner.pc = "ended" /\ runner.error = "fatal"

\* The pieces that were put into the queue, sent or not, by where the thread is.
PiecesOf(all, row, calls, answer) ==
    /\ row.pc \in {"first", "tools", "tool"} => AllBefore(all, calls)
    /\ row.pc = "final" => Streaming(all, row.placed, calls, row.attempt)
    /\ row.pc = "ended" /\ row.error = "unreachable" => AllBefore(all, calls)
    /\ row.pc = "ended" /\ row.error = "none" => ThreadAnswers(all, answer)

All == answering.sent \o answering.queue
PiecesFit ==
    outcome.turn = "running" => PiecesOf(All, runner, providerCalls.made, answering.answer)

RunInv ==
    /\ RunTypeOK
    /\ ToolsFit
    /\ ThreadFits
    /\ PiecesFit
    /\ ~Finished => providerCalls.kept = 0
    /\ Finished => Ended
    /\ RunIsAccounted

LEMMA RunInitInv == RunInit => RunInv
<1> SUFFICES ASSUME RunInit PROVE RunInv
    OBVIOUS
<1>1. MaxTools \in Nat /\ MaxPieces \in Nat /\ 0 \in 0..MaxTools /\ 0 \in 0..MaxPieces
      BY ChatRunAssumption
<1>2. runner \in Runner /\ runner.pc = "first" /\ runner.error = "none"
      BY <1>1 DEF RunInit, Runner, Models
<1>3. <<>> \in Seq(ToolStatuses) /\ <<>> \in Seq(Draft) /\ <<>> \in Seq(Piece) /\ Len(<<>>) = 0
      BY EmptySeq
<1>4. RunTypeOK
      BY <1>2, <1>3 DEF RunInit, RunTypeOK
<1>5. All = <<>>
  <2>1. All = <<>> \o <<>>
        BY DEF RunInit, All
  <2> QED BY <1>3, <2>1, ConcatEmptySeq
<1>6. PiecesFit
      BY <1>2, <1>3, <1>5 DEF PiecesFit, PiecesOf, AllBefore
<1>7. ToolsFit /\ ThreadFits /\ DraftsDistinct
      BY <1>2, <1>3 DEF RunInit, ToolsFit, ThreadFits, DraftsDistinct
<1>8. ~Finished /\ outcome.turn = "running" /\ providerCalls.kept = 0
      BY DEF RunInit, Finished
<1> QED BY <1>4, <1>6, <1>7, <1>8 DEF RunInv, RunIsAccounted, ToolRowsClosed, CitedIsLogged,
        UsageIsKept, StreamAgrees, Finished

-----------------------------------------------------------------------------
(* The steps of the thread                                                   *)

LEMMA RunTypes ==
    ASSUME RunInv
    PROVE  /\ runner \in Runner
           /\ runner.pc \in {"first", "tools", "tool", "final", "ended"}
           /\ runner.error \in {"none", "unreachable", "fatal"}
           /\ runner.attempt \in 1..2 /\ runner.placed \in 0..MaxPieces
           /\ runner.todo \in 0..MaxTools /\ MaxTools \in Nat /\ MaxPieces \in Nat
           /\ providerCalls \in [made : Nat, kept : Nat] /\ providerCalls.made \in Nat
           /\ answering.sent \in Seq(Piece) /\ answering.queue \in Seq(Piece)
           /\ answering.answer \in Seq(Piece) /\ All \in Seq(Piece)
           /\ found.results \in SUBSET Evidence /\ found.logged \in SUBSET Evidence
<1>1. /\ runner \in Runner /\ providerCalls \in [made : Nat, kept : Nat]
      /\ answering \in [queue : Seq(Piece), sent : Seq(Piece), answer : Seq(Piece)]
      /\ found \in [results : SUBSET Evidence, logged : SUBSET Evidence]
      BY DEF RunInv, RunTypeOK
<1>2. answering.sent \in Seq(Piece) /\ answering.queue \in Seq(Piece) /\ answering.answer \in Seq(Piece)
      BY <1>1
<1>3. All \in Seq(Piece)
      BY <1>2, ConcatProperties DEF All
<1> QED BY <1>1, <1>2, <1>3, ChatRunAssumption DEF Runner

LEMMA GoesFacts ==
    ASSUME RunInv, NEW pc \in {"first", "tools", "tool", "final", "ended"}
    PROVE  /\ Goes(pc) \in Runner
           /\ Goes(pc).pc = pc /\ Goes(pc).attempt = 1 /\ Goes(pc).placed = 0
           /\ Goes(pc).error = runner.error
<1>1. runner \in Runner /\ 1 \in 1..2 /\ 0 \in 0..MaxPieces
      BY RunTypes
<1> QED BY <1>1 DEF Goes, Runner

LEMMA FailsFacts ==
    ASSUME RunInv, NEW error \in {"unreachable", "fatal"}
    PROVE  Fails(error) \in Runner /\ Fails(error).pc = "ended" /\ Fails(error).error = error
<1> DEFINE w == Goes("ended")
<1>1. w \in Runner /\ w.pc = "ended"
      BY GoesFacts
<1> HIDE DEF w
<1>2. [w EXCEPT !.error = error, !.tool = "none"] \in Runner
      BY <1>1 DEF Runner
<1>3. /\ [w EXCEPT !.error = error, !.tool = "none"].pc = "ended"
      /\ [w EXCEPT !.error = error, !.tool = "none"].error = error
      BY <1>1 DEF Runner
<1> QED BY <1>2, <1>3 DEF w, Fails

LEMMA RecordedFacts ==
    ASSUME RunInv, Recorded
    PROVE  /\ providerCalls' \in [made : Nat, kept : Nat]
           /\ providerCalls'.made = providerCalls.made + 1
           /\ providerCalls'.kept = providerCalls.kept
BY RunTypes DEF Recorded

\* A thread that has not ended, or is to start again, has no turn that ended.
LEMMA NotFinished ==
    ASSUME RunInv, ~Ended
    PROVE  ~Finished /\ providerCalls.kept = 0
BY DEF RunInv

\* While the turn goes on, types and the invariants of the thread are enough.
LEMMA ThreadInv ==
    ASSUME RunInv, ~Finished, UNCHANGED outcome, providerCalls'.kept = 0,
           RunTypeOK', ToolsFit', ThreadFits', PiecesFit', DraftsDistinct'
    PROVE  RunInv'
<1>1. ~Finished' /\ outcome'.turn # "answered"
      BY DEF Finished
<1> QED BY <1>1 DEF RunInv, RunIsAccounted, ToolRowsClosed, CitedIsLogged, UsageIsKept, StreamAgrees

\* The thread alone moves, between tools.
LEMMA MoveInv ==
    ASSUME RunInv, ~Ended, NEW w \in Runner, runner' = w,
           UNCHANGED <<toolCalls, drafts, found, answering, outcome>>,
           UNCHANGED providerCalls \/ Recorded,
           runner.pc # "tool", w.pc # "tool", w.pc # "ended" => w.error = "none",
           outcome.turn = "running" => PiecesOf(All, w, providerCalls'.made, answering.answer)
    PROVE  RunInv'
<1>1. ~Finished /\ providerCalls.kept = 0
      BY NotFinished
<1>2. providerCalls' \in [made : Nat, kept : Nat] /\ providerCalls'.kept = 0
      BY <1>1, RunTypes, RecordedFacts
<1>3. RunTypeOK'
      BY <1>2 DEF RunInv, RunTypeOK
<1>4. PiecesFit'
      BY DEF PiecesFit, All
<1>5. ToolsFit' /\ DraftsDistinct'
      BY DEF RunInv, ToolsFit, RunIsAccounted, DraftsDistinct, PendingDraft
<1>6. found.results \subseteq found.logged
      BY DEF RunInv, ThreadFits, Ended
<1>7. ThreadFits'
      BY <1>6 DEF ThreadFits
<1> QED BY <1>1, <1>2, <1>3, <1>4, <1>5, <1>7, ThreadInv

LEMMA FirstAsksToolsInv == ASSUME RunInv, FirstAsksTools PROVE RunInv'
<1>1. PICK n \in 1..MaxTools : runner' = [Goes("tools") EXCEPT !.todo = n]
      BY DEF FirstAsksTools
<1>2. /\ runner.pc = "first" /\ ~Ended /\ Recorded /\ runner.error = "none"
      /\ UNCHANGED <<toolCalls, drafts, found, answering, outcome>>
      BY DEF FirstAsksTools, Ended, RunInv, ThreadFits
<1> DEFINE v == Goes("tools")
           w == [v EXCEPT !.todo = n]
<1>3. v \in Runner /\ v.pc = "tools" /\ v.error = "none" /\ n \in 0..MaxTools
      BY <1>2, GoesFacts, RunTypes
<1>4. runner' = w
      BY <1>1
<1> HIDE DEF v
<1>5. w \in Runner /\ w.pc = "tools" /\ w.error = "none"
      BY <1>3 DEF Runner
<1> HIDE DEF w
<1>6. outcome.turn = "running" => PiecesOf(All, w, providerCalls'.made, answering.answer)
  <2>1. outcome.turn = "running" => AllBefore(All, providerCalls.made)
        BY <1>2 DEF RunInv, PiecesFit, PiecesOf
  <2> QED BY <1>2, <1>5, <2>1, RunTypes, RecordedFacts, StreamBegins DEF PiecesOf
<1> QED BY <1>2, <1>4, <1>5, <1>6, MoveInv

LEMMA TriesAgainInv == ASSUME RunInv, TriesAgain PROVE RunInv'
<1>1. /\ runner.pc \in {"first", "final"} /\ runner.attempt = 1 /\ ~Ended /\ runner.error = "none"
      /\ runner' = [runner EXCEPT !.attempt = 2, !.placed = 0]
      /\ UNCHANGED <<toolCalls, drafts, found, providerCalls, answering, outcome>>
      BY DEF TriesAgain, Calling, Ended, RunInv, ThreadFits
<1> DEFINE w == [runner EXCEPT !.attempt = 2, !.placed = 0]
<1>2. /\ w \in Runner /\ w.pc = runner.pc /\ w.error = "none" /\ w.attempt = 2 /\ w.placed = 0
  <2>1. runner \in Runner /\ 0 \in 0..MaxPieces /\ 2 \in 1..2
        BY RunTypes
  <2> QED BY <1>1, <2>1 DEF Runner
<1>3. runner' = w
      BY <1>1
<1> HIDE DEF w
<1>4. outcome.turn = "running" => PiecesOf(All, w, providerCalls'.made, answering.answer)
  <2> SUFFICES ASSUME outcome.turn = "running"
               PROVE  PiecesOf(All, w, providerCalls'.made, answering.answer)
      OBVIOUS
  <2>1. PiecesOf(All, runner, providerCalls.made, answering.answer)
        BY DEF RunInv, PiecesFit
  <2>2. CASE runner.pc = "first"
        BY <1>1, <1>2, <2>1, <2>2 DEF PiecesOf
  <2>3. CASE runner.pc = "final"
    <3>1. Streaming(All, runner.placed, providerCalls.made, 1)
          BY <1>1, <2>1, <2>3 DEF PiecesOf
    <3>2. Streaming(All, 0, providerCalls.made, 2)
          BY <3>1, RunTypes, StreamBegins
    <3> QED BY <1>1, <1>2, <2>3, <3>2 DEF PiecesOf
  <2> QED BY <1>1, <2>2, <2>3
<1> QED BY <1>1, <1>2, <1>3, <1>4, MoveInv

\* A call ends without an answer.
LEMMA CallEndsInv == ASSUME RunInv, Unreachable \/ CallFatal PROVE RunInv'
<1>1. /\ runner.pc \in {"first", "final"} /\ ~Ended
      /\ UNCHANGED <<toolCalls, drafts, found, answering, outcome>>
      /\ UNCHANGED providerCalls \/ Recorded
      BY DEF Unreachable, CallFatal, Calling, Ended
<1>2. PICK error \in {"unreachable", "fatal"} :
          runner' = Fails(error) /\ (error = "unreachable" => Recorded)
      BY DEF Unreachable, CallFatal
<1> DEFINE w == Fails(error)
<1>3. w \in Runner /\ w.pc = "ended" /\ w.error = error /\ runner' = w
      BY <1>2, FailsFacts
<1> HIDE DEF w
<1>4. outcome.turn = "running" => PiecesOf(All, w, providerCalls'.made, answering.answer)
  <2> SUFFICES ASSUME outcome.turn = "running", error = "unreachable"
               PROVE  AllBefore(All, providerCalls'.made)
      BY <1>2, <1>3 DEF PiecesOf
  <2>1. PiecesOf(All, runner, providerCalls.made, answering.answer)
        BY DEF RunInv, PiecesFit
  <2>2. AllBefore(All, providerCalls.made) \/ Streaming(All, runner.placed, providerCalls.made, runner.attempt)
        BY <1>1, <2>1 DEF PiecesOf
  <2>3. AllBefore(All, providerCalls.made + 1)
        BY <2>2, RunTypes, StreamBegins
  <2> QED BY <1>2, <2>3, RecordedFacts
<1> QED BY <1>1, <1>3, <1>4, MoveInv

\* Between tools: to the next call, past a retrieval, or to the end of the run.
LEMMA BetweenToolsInv == ASSUME RunInv, BadToolCall \/ SkipsRetrieval \/ AskAnswer PROVE RunInv'
<1>1. /\ runner.pc = "tools" /\ ~Ended /\ runner.error = "none"
      /\ UNCHANGED <<toolCalls, drafts, found, providerCalls, answering, outcome>>
      BY DEF BadToolCall, SkipsRetrieval, AskAnswer, Ended, RunInv, ThreadFits
<1>2. outcome.turn = "running" => AllBefore(All, providerCalls.made)
      BY <1>1 DEF RunInv, PiecesFit, PiecesOf
<1>3. CASE BadToolCall
  <2> DEFINE w == Fails("fatal")
  <2>1. w \in Runner /\ w.pc = "ended" /\ w.error = "fatal" /\ runner' = w
        BY <1>3, FailsFacts DEF BadToolCall
  <2> HIDE DEF w
  <2>2. PiecesOf(All, w, providerCalls'.made, answering.answer)
        BY <2>1 DEF PiecesOf
  <2> QED BY <1>1, <2>1, <2>2, MoveInv
<1>4. CASE SkipsRetrieval
  <2> DEFINE w == [runner EXCEPT !.todo = @ - 1]
  <2>1. w \in Runner /\ w.pc = "tools" /\ w.error = "none"
    <3>1. runner \in Runner /\ runner.todo - 1 \in 0..MaxTools
          BY <1>4, RunTypes DEF SkipsRetrieval
    <3> QED BY <1>1, <3>1 DEF Runner
  <2>2. runner' = w
        BY <1>4 DEF SkipsRetrieval
  <2> HIDE DEF w
  <2>3. outcome.turn = "running" => PiecesOf(All, w, providerCalls'.made, answering.answer)
        BY <1>1, <1>2, <2>1 DEF PiecesOf
  <2> QED BY <1>1, <2>1, <2>2, <2>3, MoveInv
<1>5. CASE AskAnswer
  <2> DEFINE w == Goes("final")
  <2>1. /\ w \in Runner /\ w.pc = "final" /\ w.attempt = 1 /\ w.placed = 0 /\ w.error = "none"
        /\ runner' = w
        BY <1>1, <1>5, GoesFacts DEF AskAnswer
  <2> HIDE DEF w
  <2>2. outcome.turn = "running" => Streaming(All, 0, providerCalls.made, 1)
        BY <1>2, RunTypes, StreamBegins
  <2>3. outcome.turn = "running" => PiecesOf(All, w, providerCalls'.made, answering.answer)
        BY <1>1, <2>1, <2>2 DEF PiecesOf
  <2> QED BY <1>1, <2>1, <2>3, MoveInv
<1> QED BY <1>3, <1>4, <1>5

\* The second model starts with none of the pieces of the first in its answer.
LEMMA UseFallbackInv == ASSUME RunInv, UseFallback PROVE RunInv'
<1> DEFINE v == Goes("first")
           w == [v EXCEPT !.model = "fallback", !.error = "none", !.todo = 0]
<1>1. /\ runner.pc = "ended" /\ runner.error = "unreachable" /\ ~Ended /\ runner' = w
      /\ UNCHANGED <<toolCalls, drafts, found, providerCalls, answering, outcome>>
      BY DEF UseFallback, Ended
<1>2. v \in Runner /\ v.pc = "first" /\ 0 \in 0..MaxTools
      BY GoesFacts, RunTypes
<1> HIDE DEF v
<1>3. w \in Runner /\ w.pc = "first" /\ w.error = "none"
      BY <1>2 DEF Runner, Models
<1> HIDE DEF w
<1>4. outcome.turn = "running" => PiecesOf(All, w, providerCalls'.made, answering.answer)
      BY <1>1, <1>3 DEF RunInv, PiecesFit, PiecesOf
<1> QED BY <1>1, <1>3, <1>4, MoveInv

-----------------------------------------------------------------------------
(* The steps of the tools                                                    *)

LEMMA ToolRows ==
    ASSUME RunInv
    PROVE  /\ toolCalls \in Seq(ToolStatuses) /\ Len(toolCalls) \in Nat
           /\ DOMAIN toolCalls = 1..Len(toolCalls)
           /\ drafts \in Seq(Draft) /\ DOMAIN drafts = 1..Len(drafts) /\ Len(drafts) \in Nat
           /\ \A i \in 1..Len(drafts) : drafts[i] \in Draft
<1>1. toolCalls \in Seq(ToolStatuses) /\ drafts \in Seq(Draft)
      BY DEF RunInv, RunTypeOK
<1> QED BY <1>1, LenProperties, ElementOfSeq

LEMMA StartToolInv == ASSUME RunInv, StartTool PROVE RunInv'
<1>1. PICK tool \in Tools :
          runner' = [runner EXCEPT !.pc = "tool", !.tool = tool, !.todo = @ - 1]
      BY DEF StartTool
<1>2. /\ runner.pc = "tools" /\ ~Ended /\ runner.error = "none" /\ runner.todo > 0
      /\ toolCalls' = Append(toolCalls, "running")
      /\ UNCHANGED <<drafts, found, providerCalls, answering, outcome>>
      BY DEF StartTool, Ended, RunInv, ThreadFits
<1> DEFINE w == [runner EXCEPT !.pc = "tool", !.tool = tool, !.todo = @ - 1]
<1>3. w \in Runner /\ w.pc = "tool" /\ w.error = "none"
  <2>1. runner \in Runner /\ runner.todo - 1 \in 0..MaxTools
        BY <1>2, RunTypes
  <2> QED BY <1>2, <2>1 DEF Runner
<1>4. runner' = w
      BY <1>1
<1> HIDE DEF w
<1>5. ~Finished /\ providerCalls.kept = 0
      BY <1>2, NotFinished
<1>6. /\ toolCalls' \in Seq(ToolStatuses) /\ toolCalls' # <<>>
      /\ Len(toolCalls') = Len(toolCalls) + 1
      /\ \A i \in 1..Len(toolCalls) : toolCalls'[i] = toolCalls[i]
  <2>1. "running" \in ToolStatuses
        BY DEF ToolStatuses
  <2> QED BY <1>2, <2>1, ToolRows, AppendProperties
<1>7. DOMAIN toolCalls' = 1..Len(toolCalls')
      BY <1>6, LenProperties
<1>8. ToolsFit'
  <2>1. \A i \in 1..Len(toolCalls) : toolCalls[i] # "running"
        BY <1>2, ToolRows DEF RunInv, ToolsFit
  <2>2. ASSUME NEW i \in 1..Len(toolCalls'), toolCalls'[i] = "running" PROVE i = Len(toolCalls')
    <3>1. i \notin 1..Len(toolCalls)
          BY <1>6, <2>1, <2>2
    <3> QED BY <1>6, <2>2, <3>1, ToolRows
  <2> QED BY <1>3, <1>4, <1>6, <1>7, <2>2 DEF ToolsFit
<1>9. RunTypeOK'
      BY <1>2, <1>3, <1>4, <1>6 DEF RunInv, RunTypeOK
<1>10. ThreadFits' /\ DraftsDistinct'
      BY <1>2, <1>3, <1>4 DEF RunInv, ThreadFits, RunIsAccounted, DraftsDistinct, PendingDraft
<1>11. PiecesFit'
      BY <1>2, <1>3, <1>4 DEF RunInv, PiecesFit, PiecesOf, All
<1> QED BY <1>2, <1>5, <1>8, <1>9, <1>10, <1>11, ThreadInv

\* A tool ends: its row is closed, and the thread goes on or ends with an error.
LEMMA ToolEndsInv ==
    ASSUME RunInv, runner.pc = "tool", NEW status \in {"succeeded", "failed"}, CloseRow(status),
           BackToTools \/ runner' = Fails("fatal"),
           UNCHANGED <<providerCalls, answering, outcome>>,
           drafts' \in Seq(Draft), DraftsDistinct',
           found' \in [results : SUBSET Evidence, logged : SUBSET Evidence],
           BackToTools => found'.results \subseteq found'.logged
    PROVE  RunInv'
<1>1. ~Ended /\ runner.error = "none" /\ toolCalls # <<>>
      BY DEF Ended, RunInv, ThreadFits, ToolsFit
<1>2. ~Finished /\ providerCalls.kept = 0
      BY <1>1, NotFinished
<1>3. PICK w \in Runner :
          /\ runner' = w
          /\ \/ w.pc = "tools" /\ w.error = "none" /\ found'.results \subseteq found'.logged
             \/ w.pc = "ended" /\ w.error = "fatal"
  <2>1. CASE BackToTools
    <3> DEFINE w == [runner EXCEPT !.pc = "tools", !.tool = "none"]
    <3>1. w \in Runner /\ w.pc = "tools" /\ w.error = "none"
      <4>1. runner \in Runner
            BY RunTypes
      <4> QED BY <1>1, <4>1 DEF Runner
    <3>2. runner' = w
          BY <2>1 DEF BackToTools
    <3> HIDE DEF w
    <3> QED BY <2>1, <3>1, <3>2
  <2>2. CASE runner' = Fails("fatal")
        BY <2>2, FailsFacts
  <2> QED BY <2>1, <2>2
<1>4. /\ toolCalls' \in Seq(ToolStatuses) /\ Len(toolCalls') = Len(toolCalls)
      /\ \A i \in 1..Len(toolCalls) :
             toolCalls'[i] = IF i = Len(toolCalls) THEN status ELSE toolCalls[i]
  <2>1. Len(toolCalls) \in 1..Len(toolCalls) /\ status \in ToolStatuses
    <3>1. Len(toolCalls) \in Nat \ {0}
          BY <1>1, ToolRows, EmptySeq
    <3> QED BY <3>1 DEF ToolStatuses
  <2>2. toolCalls' = [toolCalls EXCEPT ![Len(toolCalls)] = status]
        BY DEF CloseRow
  <2> QED BY <2>1, <2>2, ToolRows, ExceptSeq
<1>5. ToolsFit'
  <2>1. DOMAIN toolCalls' = 1..Len(toolCalls)
        BY <1>4, LenProperties
  <2>2. \A i \in 1..Len(toolCalls) : toolCalls[i] = "running" => i = Len(toolCalls)
        BY ToolRows DEF RunInv, ToolsFit
  <2>3. \A i \in 1..Len(toolCalls) : toolCalls'[i] # "running"
        BY <1>4, <2>2
  <2> QED BY <1>3, <2>1, <2>3 DEF ToolsFit
<1>6. RunTypeOK'
      BY <1>3, <1>4 DEF RunInv, RunTypeOK
<1>7. ThreadFits'
      BY <1>3 DEF ThreadFits
<1>8. PiecesFit'
      BY <1>3 DEF RunInv, PiecesFit, PiecesOf, All
<1> QED BY <1>2, <1>5, <1>6, <1>7, <1>8, ThreadInv

\* Searches, requests for approval and failures: the drafts stay as they are.
LEMMA OtherToolsInv ==
    ASSUME RunInv, SearchEnds \/ SearchUnlogged \/ AskApproval \/ ToolFails
    PROVE  RunInv'
<1>1. /\ runner.pc = "tool" /\ ~Ended /\ found.results \subseteq found.logged
      /\ UNCHANGED <<drafts, providerCalls, answering, outcome>>
      BY DEF SearchEnds, SearchUnlogged, AskApproval, ToolFails, ToolDone, Ended, RunInv, ThreadFits
<1>2. drafts' \in Seq(Draft) /\ DraftsDistinct'
      BY <1>1, ToolRows DEF RunInv, RunIsAccounted, DraftsDistinct, PendingDraft
<1>3. found \in [results : SUBSET Evidence, logged : SUBSET Evidence]
      BY DEF RunInv, RunTypeOK
<1>4. /\ found' \in [results : SUBSET Evidence, logged : SUBSET Evidence]
      /\ ~SearchUnlogged => found'.results \subseteq found'.logged
  <2>1. CASE SearchEnds
    <3>1. PICK some \in SUBSET Evidence :
              found' = [results |-> found.results \cup some, logged |-> found.logged \cup some]
          BY <2>1 DEF SearchEnds
    <3>2. found.results \cup some \in SUBSET Evidence /\ found.logged \cup some \in SUBSET Evidence
          BY RunTypes
    <3> QED BY <1>1, <3>1, <3>2
  <2>2. CASE SearchUnlogged
    <3>1. PICK some \in SUBSET Evidence : found' = [found EXCEPT !.results = @ \cup some]
          BY <2>2 DEF SearchUnlogged
    <3>2. found.results \cup some \in SUBSET Evidence
          BY RunTypes
    <3> QED BY <1>3, <2>2, <3>1, <3>2
  <2>3. CASE UNCHANGED found
        BY <1>1, <1>3, <2>3
  <2> QED BY <2>1, <2>2, <2>3 DEF AskApproval, ToolFails
<1>5. BackToTools => ~SearchUnlogged
  <2> SUFFICES ASSUME BackToTools, SearchUnlogged PROVE FALSE
      OBVIOUS
  <2>1. runner'.pc = "tools"
    <3>1. runner \in Runner
          BY RunTypes
    <3> QED BY <3>1 DEF BackToTools, Runner
  <2> QED BY <2>1, FailsFacts DEF SearchUnlogged
<1>6. PICK status \in {"succeeded", "failed"} : CloseRow(status)
      BY DEF SearchEnds, SearchUnlogged, AskApproval, ToolFails
<1>7. BackToTools \/ runner' = Fails("fatal")
      BY DEF SearchEnds, SearchUnlogged, AskApproval, ToolFails
<1> QED BY <1>1, <1>2, <1>4, <1>5, <1>6, <1>7, ToolEndsInv

\* A tool that writes drafts.
LEMMA DraftToolInv ==
    ASSUME RunInv, runner.pc = "tool", CloseRow("succeeded"), BackToTools,
           UNCHANGED <<found, providerCalls, answering, outcome>>,
           drafts' \in Seq(Draft), DraftsDistinct'
    PROVE  RunInv'
<1>1. found.results \subseteq found.logged
      BY DEF RunInv, ThreadFits
<1>2. found \in [results : SUBSET Evidence, logged : SUBSET Evidence]
      BY DEF RunInv, RunTypeOK
<1> QED BY <1>1, <1>2, ToolEndsInv

LEMMA CommitDraftInv == ASSUME RunInv, CommitDraft PROVE RunInv'
<1>1. /\ runner.pc = "tool" /\ CloseRow("succeeded") /\ BackToTools
      /\ UNCHANGED <<found, providerCalls, answering, outcome>>
      BY DEF CommitDraft, ToolDone
<1>2. PICK text \in Texts :
          drafts' = IF \E i \in DOMAIN drafts : PendingDraft(i) /\ drafts[i].text = text
                    THEN drafts ELSE Append(drafts, NewDraft(text))
      BY DEF CommitDraft
<1>3. DraftsDistinct
      BY DEF RunInv, RunIsAccounted
<1>4. CASE \E i \in DOMAIN drafts : PendingDraft(i) /\ drafts[i].text = text
  <2>1. drafts' = drafts
        BY <1>2, <1>4
  <2>2. DraftsDistinct' /\ drafts' \in Seq(Draft)
        BY <1>3, <2>1, ToolRows DEF DraftsDistinct, PendingDraft
  <2> QED BY <1>1, <2>2, DraftToolInv
<1>5. CASE ~(\E i \in DOMAIN drafts : PendingDraft(i) /\ drafts[i].text = text)
  <2> DEFINE d == NewDraft(text)
  <2>1. drafts' = Append(drafts, d)
        BY <1>2, <1>5
  <2>2. d \in Draft /\ d.text = text
        BY DEF NewDraft, Draft
  <2> HIDE DEF d
  <2>3. /\ drafts' \in Seq(Draft) /\ Len(drafts') = Len(drafts) + 1
        /\ \A i \in 1..Len(drafts) : drafts'[i] = drafts[i]
        /\ drafts'[Len(drafts) + 1] = d
        BY <2>1, <2>2, ToolRows, AppendProperties
  <2>4. DOMAIN drafts' = 1..(Len(drafts) + 1)
        BY <2>3, LenProperties
  <2>5. ASSUME NEW i \in DOMAIN drafts', NEW k \in DOMAIN drafts', i # k,
               PendingDraft(i)', PendingDraft(k)', drafts'[i].text = drafts'[k].text
        PROVE  drafts'[i].refined \/ drafts'[k].refined
    <3>1. \A n \in DOMAIN drafts' : n \in DOMAIN drafts \/ n = Len(drafts) + 1
          BY <2>4, ToolRows
    <3>2. \A n \in DOMAIN drafts : drafts'[n] = drafts[n]
          BY <2>3, ToolRows
    <3>3. CASE i \in DOMAIN drafts /\ k \in DOMAIN drafts
          BY <1>3, <2>5, <3>2, <3>3 DEF DraftsDistinct, PendingDraft
    <3>4. CASE i = Len(drafts) + 1 /\ k \in DOMAIN drafts
          BY <1>5, <2>2, <2>3, <2>5, <3>2, <3>4 DEF PendingDraft
    <3>5. CASE i \in DOMAIN drafts /\ k = Len(drafts) + 1
          BY <1>5, <2>2, <2>3, <2>5, <3>2, <3>5 DEF PendingDraft
    <3> QED BY <2>5, <3>1, <3>3, <3>4, <3>5
  <2>6. DraftsDistinct'
        BY <2>5 DEF DraftsDistinct
  <2> QED BY <1>1, <2>3, <2>6, DraftToolInv
<1> QED BY <1>4, <1>5

\* A refinement or a cancellation replaces a draft by one that is refined or not
\* pending.
LEMMA EditDraftInv == ASSUME RunInv, RefineDraft \/ CancelDraft PROVE RunInv'
<1>1. /\ runner.pc = "tool" /\ CloseRow("succeeded") /\ BackToTools
      /\ UNCHANGED <<found, providerCalls, answering, outcome>>
      BY DEF RefineDraft, CancelDraft, ToolDone
<1>2. PICK n \in 1..Len(drafts), d \in Draft :
          /\ drafts' = [drafts EXCEPT ![n] = d]
          /\ d.refined \/ d.status # "pending"
  <2>1. CASE RefineDraft
    <3>1. PICK n \in 1..Len(drafts), text \in Texts :
              drafts' = [drafts EXCEPT ![n].text = text, ![n].refined = TRUE]
          BY <2>1, ToolRows DEF RefineDraft
    <3> DEFINE d == [drafts[n] EXCEPT !.text = text, !.refined = TRUE]
    <3>2. d \in Draft /\ d.refined
      <4>1. drafts[n] \in Draft
            BY ToolRows
      <4> QED BY <4>1 DEF Draft
    <3>3. drafts' = [drafts EXCEPT ![n] = d]
      <4>1. n \in DOMAIN drafts
            BY ToolRows
      <4> QED BY <3>1, <4>1
    <3> HIDE DEF d
    <3> QED BY <3>2, <3>3
  <2>2. CASE CancelDraft
    <3>1. PICK n \in 1..Len(drafts) : drafts' = [drafts EXCEPT ![n].status = "rejected"]
          BY <2>2, ToolRows DEF CancelDraft
    <3> DEFINE d == [drafts[n] EXCEPT !.status = "rejected"]
    <3>2. d \in Draft /\ d.status # "pending"
      <4>1. drafts[n] \in Draft
            BY ToolRows
      <4> QED BY <4>1 DEF Draft
    <3>3. drafts' = [drafts EXCEPT ![n] = d]
          BY <3>1
    <3> HIDE DEF d
    <3> QED BY <3>2, <3>3
  <2> QED BY <2>1, <2>2
<1>3. /\ drafts' \in Seq(Draft) /\ Len(drafts') = Len(drafts)
      /\ \A k \in 1..Len(drafts) : drafts'[k] = IF k = n THEN d ELSE drafts[k]
      BY <1>2, ToolRows, ExceptSeq
<1>4. DOMAIN drafts' = DOMAIN drafts /\ DOMAIN drafts = 1..Len(drafts)
      BY <1>3, ToolRows, LenProperties
<1>5. DraftsDistinct'
      BY <1>2, <1>3, <1>4 DEF RunInv, RunIsAccounted, DraftsDistinct, PendingDraft
<1> QED BY <1>1, <1>3, <1>5, DraftToolInv

-----------------------------------------------------------------------------
(* The steps that stream the answer                                          *)

\* The thread puts something into the queue.
LEMMA QueueInv ==
    ASSUME RunInv, runner.pc # "tool", ~Ended, NEW w \in Runner, runner' = w,
           w.pc # "tool", w.error = "none",
           UNCHANGED <<toolCalls, drafts, found, outcome>>,
           providerCalls' \in [made : Nat, kept : Nat], providerCalls'.kept = providerCalls.kept,
           answering' \in [queue : Seq(Piece), sent : Seq(Piece), answer : Seq(Piece)],
           outcome.turn = "running" => PiecesOf(All', w, providerCalls'.made, answering'.answer)
    PROVE  RunInv'
<1>1. ~Finished /\ providerCalls'.kept = 0
      BY NotFinished
<1>2. RunTypeOK'
      BY DEF RunInv, RunTypeOK
<1>3. ToolsFit' /\ DraftsDistinct'
      BY DEF RunInv, ToolsFit, RunIsAccounted, DraftsDistinct, PendingDraft
<1>4. ThreadFits'
      BY DEF RunInv, ThreadFits, Ended
<1>5. PiecesFit'
      BY DEF PiecesFit
<1> QED BY <1>1, <1>2, <1>3, <1>4, <1>5, ThreadInv

LEMMA FirstAnswersInv == ASSUME RunInv, FirstAnswers PROVE RunInv'
<1> DEFINE c == providerCalls.made
           piece == <<c, 1, 0>>
           w == Goes("ended")
<1>1. /\ runner.pc = "first" /\ ~Ended /\ runner.error = "none" /\ Recorded /\ runner' = w
      /\ answering' = [answering EXCEPT !.queue = @ \o <<piece>>, !.answer = <<piece>>]
      /\ UNCHANGED <<toolCalls, drafts, found, outcome>>
      BY DEF FirstAnswers, Ended, RunInv, ThreadFits
<1>2. w \in Runner /\ w.pc = "ended" /\ w.error = "none"
      BY <1>1, GoesFacts
<1>3. c \in Nat /\ piece \in Piece
  <2>1. c \in Nat /\ 0 \in 0..MaxPieces
        BY RunTypes
  <2> QED BY <2>1, PieceFacts
<1> HIDE DEF w, piece
<1>4. /\ answering \in [queue : Seq(Piece), sent : Seq(Piece), answer : Seq(Piece)]
      /\ answering.queue \in Seq(Piece) /\ answering.sent \in Seq(Piece) /\ All \in Seq(Piece)
      BY RunTypes DEF RunInv, RunTypeOK
<1>5. /\ <<piece>> \in Seq(Piece) /\ answering.queue \o <<piece>> \in Seq(Piece)
      /\ answering.sent \o (answering.queue \o <<piece>>) = Append(All, piece)
      BY <1>3, <1>4, AppendToQueue, ConcatProperties DEF All
<1>6. /\ answering' \in [queue : Seq(Piece), sent : Seq(Piece), answer : Seq(Piece)]
      /\ answering'.answer = <<piece>> /\ All' = Append(All, piece)
      BY <1>1, <1>4, <1>5 DEF All
<1>7. outcome.turn = "running" => PiecesOf(All', w, providerCalls'.made, answering'.answer)
  <2>1. outcome.turn = "running" => AllBefore(All, c)
        BY <1>1 DEF RunInv, PiecesFit, PiecesOf
  <2>2. outcome.turn = "running" => ThreadAnswers(Append(All, piece), <<piece>>)
        BY <1>3, <1>4, <2>1, AnswerFacts DEF piece
  <2> QED BY <1>2, <1>6, <2>2 DEF PiecesOf
<1> QED BY <1>1, <1>2, <1>6, <1>7, RecordedFacts, QueueInv

LEMMA NextPieceInv == ASSUME RunInv, NextPiece PROVE RunInv'
<1> DEFINE c == providerCalls.made
           piece == <<c, runner.attempt, runner.placed + 1>>
           w == [runner EXCEPT !.placed = @ + 1]
<1>1. /\ runner.pc = "final" /\ ~Ended /\ runner.error = "none" /\ runner.placed < MaxPieces
      /\ runner' = w /\ answering' = [answering EXCEPT !.queue = Append(@, piece)]
      /\ UNCHANGED <<toolCalls, drafts, found, providerCalls, outcome>>
      BY DEF NextPiece, Ended, RunInv, ThreadFits
<1>2. runner \in Runner /\ runner.placed + 1 \in 0..MaxPieces /\ c \in Nat /\ runner.attempt \in 1..2
      BY <1>1, RunTypes
<1>3. /\ w \in Runner /\ w.pc = "final" /\ w.error = "none" /\ w.attempt = runner.attempt
      /\ w.placed = runner.placed + 1
      BY <1>1, <1>2 DEF Runner
<1>4. piece \in Piece
      BY <1>2, PieceFacts
<1>5. /\ answering \in [queue : Seq(Piece), sent : Seq(Piece), answer : Seq(Piece)]
      /\ answering.queue \in Seq(Piece) /\ answering.sent \in Seq(Piece) /\ All \in Seq(Piece)
      BY RunTypes DEF RunInv, RunTypeOK
<1> HIDE DEF w
<1>6. outcome.turn = "running" => Streaming(Append(All, piece), w.placed, c, w.attempt)
  <2>1. outcome.turn = "running" => Streaming(All, runner.placed, c, runner.attempt)
        BY <1>1 DEF RunInv, PiecesFit, PiecesOf
  <2> QED BY <1>1, <1>2, <1>3, <1>5, <2>1, NextPieceFacts
<1> HIDE DEF piece
<1>7. /\ Append(answering.queue, piece) \in Seq(Piece)
      /\ answering.sent \o Append(answering.queue, piece) = Append(All, piece)
      BY <1>4, <1>5, AppendToQueue DEF All
<1>8. /\ answering' \in [queue : Seq(Piece), sent : Seq(Piece), answer : Seq(Piece)]
      /\ All' = Append(All, piece)
      BY <1>1, <1>5, <1>7 DEF All
<1>9. outcome.turn = "running" => PiecesOf(All', w, providerCalls'.made, answering'.answer)
      BY <1>1, <1>3, <1>6, <1>8 DEF PiecesOf
<1>10. providerCalls' \in [made : Nat, kept : Nat] /\ providerCalls'.kept = providerCalls.kept
      BY <1>1, RunTypes
<1> QED BY <1>1, <1>3, <1>8, <1>9, <1>10, QueueInv

LEMMA FinalAnswersInv == ASSUME RunInv, FinalAnswers PROVE RunInv'
<1> DEFINE c == providerCalls.made
           a == runner.attempt
           w == Goes("ended")
<1>1. /\ runner.pc = "final" /\ ~Ended /\ runner.error = "none" /\ Recorded /\ runner' = w
      /\ answering' = [answering EXCEPT !.answer = Streamed(c, a)]
      /\ UNCHANGED <<toolCalls, drafts, found, outcome>>
      BY DEF FinalAnswers, Ended, RunInv, ThreadFits, Streamed
<1>2. w \in Runner /\ w.pc = "ended" /\ w.error = "none"
      BY <1>1, GoesFacts
<1>3. c \in Nat /\ a \in 1..2 /\ All \in Seq(Piece)
      BY RunTypes
<1>4. answering \in [queue : Seq(Piece), sent : Seq(Piece), answer : Seq(Piece)]
      BY DEF RunInv, RunTypeOK
<1>5. outcome.turn = "running" => Streaming(All, runner.placed, c, a)
      BY <1>1 DEF RunInv, PiecesFit, PiecesOf
<1> HIDE DEF c, a, w
<1>6. Streamed(c, a) \in Seq(Piece)
      BY <1>3, StreamedFacts
<1>7. /\ answering' \in [queue : Seq(Piece), sent : Seq(Piece), answer : Seq(Piece)]
      /\ answering'.answer = Streamed(c, a) /\ All' = All
      BY <1>1, <1>4, <1>6 DEF All
<1>8. outcome.turn = "running" => PiecesOf(All', w, providerCalls'.made, answering'.answer)
      BY <1>2, <1>3, <1>5, <1>7, AnswerFacts DEF PiecesOf
<1> QED BY <1>1, <1>2, <1>7, <1>8, RecordedFacts, QueueInv

-----------------------------------------------------------------------------
(* The steps of the generator                                                *)

LEMMA PassesInv == ASSUME RunInv, Passes PROVE RunInv'
<1>1. /\ outcome.turn = "running" /\ answering.queue # <<>>
      /\ answering' = [answering EXCEPT !.queue = Tail(@), !.sent = Append(@, Head(answering.queue))]
      /\ UNCHANGED <<runner, toolCalls, drafts, found, providerCalls, outcome>>
      BY DEF Passes
<1>2. answering \in [queue : Seq(Piece), sent : Seq(Piece), answer : Seq(Piece)]
      BY DEF RunInv, RunTypeOK
<1>3. /\ Tail(answering.queue) \in Seq(Piece)
      /\ Append(answering.sent, Head(answering.queue)) \in Seq(Piece)
      /\ Append(answering.sent, Head(answering.queue)) \o Tail(answering.queue) = All
  <2>1. answering.sent \in Seq(Piece) /\ answering.queue \in Seq(Piece)
        BY RunTypes
  <2> QED BY <1>1, <2>1, PassFacts, Zenon DEF All
<1>4. /\ answering' \in [queue : Seq(Piece), sent : Seq(Piece), answer : Seq(Piece)]
      /\ All' = All /\ answering'.answer = answering.answer
      BY <1>1, <1>2, <1>3 DEF All
<1>5. RunTypeOK'
      BY <1>1, <1>4 DEF RunInv, RunTypeOK
<1>6. ToolsFit' /\ ThreadFits' /\ DraftsDistinct'
      BY <1>1 DEF RunInv, ToolsFit, ThreadFits, RunIsAccounted, DraftsDistinct, PendingDraft
<1>7. PiecesFit'
      BY <1>1, <1>4 DEF RunInv, PiecesFit
<1>8. ~Finished /\ providerCalls'.kept = 0
      BY <1>1 DEF RunInv, Finished
<1> QED BY <1>1, <1>5, <1>6, <1>7, <1>8, ThreadInv

\* A turn that ends has no tool at work, and its usage.
LEMMA FinishesInv ==
    ASSUME RunInv, outcome.turn = "running", Ended, NEW end \in {"answered", "failed"},
           NEW redacted \in BOOLEAN, NEW cited \in SUBSET Evidence, Finishes(end, redacted, cited),
           UNCHANGED <<runner, toolCalls, drafts, found>>,
           answering' \in [queue : Seq(Piece), sent : Seq(Piece), answer : Seq(Piece)],
           end = "answered" => cited \subseteq found.logged, StreamAgrees'
    PROVE  RunInv'
<1>1. /\ outcome'.turn = end /\ outcome'.redacted = redacted /\ outcome'.cited = cited
      /\ outcome'.rows = toolCalls
      /\ outcome' \in [turn : {"running", "answered", "failed", "left"}, redacted : BOOLEAN,
                       cited : SUBSET Evidence, rows : Seq(ToolStatuses)]
      BY ToolRows DEF Finishes
<1>2. /\ providerCalls' \in [made : Nat, kept : Nat]
      /\ providerCalls'.made = providerCalls.made /\ providerCalls'.kept = providerCalls.made
  <2>1. providerCalls.kept = 0 /\ providerCalls \in [made : Nat, kept : Nat]
        BY RunTypes DEF RunInv, Finished
  <2> QED BY <2>1 DEF Finishes
<1>3. RunTypeOK'
      BY <1>1, <1>2 DEF RunInv, RunTypeOK
<1>4. ToolsFit' /\ ThreadFits' /\ DraftsDistinct'
      BY DEF RunInv, ToolsFit, ThreadFits, RunIsAccounted, DraftsDistinct, PendingDraft
<1>5. PiecesFit'
      BY <1>1 DEF PiecesFit
<1>6. Finished' /\ Ended'
      BY <1>1 DEF Finished, Ended
<1>7. ToolRowsClosed'
  <2>1. \A i \in DOMAIN toolCalls : toolCalls[i] # "running"
        BY DEF RunInv, ToolsFit, Ended
  <2> QED BY <1>1, <2>1 DEF ToolRowsClosed, Range
<1>8. CitedIsLogged' /\ UsageIsKept'
      BY <1>1, <1>2 DEF CitedIsLogged, UsageIsKept
<1> QED BY <1>3, <1>4, <1>5, <1>6, <1>7, <1>8 DEF RunInv, RunIsAccounted

LEMMA AnswerTurnInv == ASSUME RunInv, AnswerTurn PROVE RunInv'
<1>1. /\ outcome.turn = "running" /\ Ended /\ runner.error = "none" /\ answering.queue = <<>>
      /\ UNCHANGED <<runner, toolCalls, drafts, found>>
      BY DEF AnswerTurn
<1>2. PICK claimed \in SUBSET Evidence, redacted \in BOOLEAN :
          /\ Finishes("answered", redacted, Citable(claimed))
          /\ answering' = IF redacted THEN answering
                          ELSE [answering EXCEPT !.sent = @ \o Rest(answering.answer)]
      BY DEF AnswerTurn
<1> DEFINE cited == Citable(claimed)
           sent == answering.sent
           answer == answering.answer
<1>3. cited \in SUBSET Evidence /\ cited \subseteq found.logged
      BY <1>1, RunTypes DEF Citable, RunInv, ThreadFits
<1>4. answering \in [queue : Seq(Piece), sent : Seq(Piece), answer : Seq(Piece)]
      BY DEF RunInv, RunTypeOK
<1>5. sent \in Seq(Piece) /\ answer \in Seq(Piece) /\ ThreadAnswers(sent, answer)
  <2>1. All = sent
    <3>1. All = sent \o <<>>
          BY <1>1 DEF All
    <3> QED BY <3>1, RunTypes, ConcatEmptySeq
  <2> QED BY <1>1, <2>1, RunTypes DEF RunInv, PiecesFit, PiecesOf, Ended
<1>6. outcome'.redacted = redacted
      BY <1>2 DEF Finishes
<1>7. /\ answering' \in [queue : Seq(Piece), sent : Seq(Piece), answer : Seq(Piece)]
      /\ StreamAgrees'
  <2>1. CASE redacted
        BY <1>2, <1>4, <1>6, <2>1 DEF StreamAgrees
  <2>2. CASE ~redacted
    <3> DEFINE whole == sent \o Rest(answer)
    <3>1. Rest(answer) \in Seq(Piece)
      <4>1. Len(sent) \in Nat /\ Len(answer) \in Nat
            BY <1>5, LenProperties
      <4>2. \A i \in (Len(sent) + 1)..Len(answer) : i \in 1..Len(answer)
            BY <4>1
      <4>3. \A i \in (Len(sent) + 1)..Len(answer) : answer[i] \in Piece
            BY <1>5, <4>2, ElementOfSeq
      <4>4. SubSeq(answer, Len(sent) + 1, Len(answer)) \in Seq(Piece)
            BY <4>1, <4>3, SubSeqProperties
      <4> QED BY <4>4, EmptySeq DEF Rest
    <3>2. whole \in Seq(Piece) /\ Range(sent) \subseteq Range(whole)
          BY <1>5, <3>1, ConcatProperties, RangeConcatenation
    <3>3. ASSUME \A p \in Range(whole) : p[1] = answer[1][1] /\ p[2] = answer[1][2]
          PROVE  whole = answer
      <4>1. \A p \in Range(sent) : p[1] = answer[1][1] /\ p[2] = answer[1][2]
            BY <3>2, <3>3
      <4>2. IsPrefix(sent, answer) /\ sent \o SubSeq(answer, Len(sent) + 1, Len(answer)) = answer
            BY <1>5, <4>1, SentIsBeginning
      <4> QED BY <4>2 DEF Rest
    <3>4. answering' = [answering EXCEPT !.sent = whole]
          BY <1>2, <2>2
    <3> HIDE DEF whole
    <3>5. /\ answering' \in [queue : Seq(Piece), sent : Seq(Piece), answer : Seq(Piece)]
          /\ answering'.sent = whole /\ answering'.answer = answer
          BY <1>4, <3>2, <3>4
    <3> QED BY <3>3, <3>5 DEF StreamAgrees
  <2> QED BY <2>1, <2>2
<1> HIDE DEF cited
<1>8. Finishes("answered", redacted, cited)
      BY <1>2 DEF cited
<1> QED BY <1>1, <1>3, <1>7, <1>8, FinishesInv

LEMMA FailTurnInv == ASSUME RunInv, FailTurn PROVE RunInv'
<1>1. /\ outcome.turn = "running" /\ Ended /\ Finishes("failed", FALSE, {})
      /\ UNCHANGED <<runner, toolCalls, drafts, found, answering>>
      BY DEF FailTurn
<1>2. outcome'.turn = "failed"
      BY <1>1 DEF Finishes
<1>3. StreamAgrees'
      BY <1>2 DEF StreamAgrees
<1>4. answering' \in [queue : Seq(Piece), sent : Seq(Piece), answer : Seq(Piece)]
      BY <1>1 DEF RunInv, RunTypeOK
<1>5. {} \in SUBSET Evidence /\ FALSE \in BOOLEAN
      OBVIOUS
<1> QED BY <1>1, <1>3, <1>4, <1>5, FinishesInv

LEMMA ClientLeavesInv == ASSUME RunInv, ClientLeaves PROVE RunInv'
<1>1. /\ outcome.turn = "running" /\ outcome' = [outcome EXCEPT !.turn = "left", !.rows = toolCalls]
      /\ UNCHANGED <<runner, toolCalls, drafts, found, providerCalls, answering>>
      BY DEF ClientLeaves
<1> DEFINE Outcomes == [turn : {"running", "answered", "failed", "left"}, redacted : BOOLEAN,
                        cited : SUBSET Evidence, rows : Seq(ToolStatuses)]
<1>2. outcome \in Outcomes
      BY DEF RunInv, RunTypeOK
<1>3. outcome' \in Outcomes /\ outcome'.turn = "left"
      BY <1>1, <1>2, ToolRows
<1>4. RunTypeOK'
      BY <1>1, <1>3 DEF RunInv, RunTypeOK
<1>5. ToolsFit' /\ ThreadFits' /\ DraftsDistinct' /\ PiecesFit'
      BY <1>1, <1>3 DEF RunInv, ToolsFit, ThreadFits, RunIsAccounted, DraftsDistinct, PendingDraft, PiecesFit
<1>6. providerCalls'.kept = 0 /\ ~Finished'
      BY <1>1, <1>3 DEF RunInv, Finished
<1> QED BY <1>3, <1>4, <1>5, <1>6 DEF RunInv, RunIsAccounted, ToolRowsClosed, CitedIsLogged,
        UsageIsKept, StreamAgrees, Finished

-----------------------------------------------------------------------------
(* The theorems about a run                                                  *)

LEMMA RunStepInv == RunInv /\ [RunNext]_runVars => RunInv'
<1> SUFFICES ASSUME RunInv, [RunNext]_runVars PROVE RunInv'
    OBVIOUS
<1>1. CASE FirstAsksTools \/ TriesAgain \/ Unreachable \/ CallFatal \/ UseFallback
      BY <1>1, FirstAsksToolsInv, TriesAgainInv, CallEndsInv, UseFallbackInv
<1>2. CASE BadToolCall \/ SkipsRetrieval \/ AskAnswer \/ StartTool
      BY <1>2, BetweenToolsInv, StartToolInv
<1>3. CASE SearchEnds \/ SearchUnlogged \/ AskApproval \/ ToolFails
      BY <1>3, OtherToolsInv
<1>4. CASE CommitDraft \/ RefineDraft \/ CancelDraft
      BY <1>4, CommitDraftInv, EditDraftInv
<1>5. CASE FirstAnswers \/ NextPiece \/ FinalAnswers
      BY <1>5, FirstAnswersInv, NextPieceInv, FinalAnswersInv
<1>6. CASE Passes \/ AnswerTurn \/ FailTurn \/ ClientLeaves
      BY <1>6, PassesInv, AnswerTurnInv, FailTurnInv, ClientLeavesInv
<1>7. CASE UNCHANGED runVars
      BY <1>7 DEF runVars, RunInv, RunTypeOK, ToolsFit, ThreadFits, PiecesFit, All, Finished, Ended,
         RunIsAccounted, ToolRowsClosed, CitedIsLogged, DraftsDistinct, PendingDraft, UsageIsKept,
         StreamAgrees
<1> QED BY <1>1, <1>2, <1>3, <1>4, <1>5, <1>6, <1>7 DEF RunNext

LEMMA RunInvHolds == RunSpec => []RunInv
BY RunInitInv, RunStepInv, PTL DEF RunSpec

\* The thread, the audit rows of its tools, drafts, usage and the pieces of the
\* answer keep their types.
THEOREM RunTypeCorrect == RunSpec => []RunTypeOK
<1>1. RunInv => RunTypeOK
      BY DEF RunInv
<1> QED BY <1>1, RunInvHolds, PTL

\* Whichever model answers after whatever retries and failures: audit rows,
\* citations, drafts and usage agree with the run, and the client has the answer once
\* and in order unless it was sent pieces of another attempt.
THEOREM RunsAreAccounted == RunSpec => []RunIsAccounted
<1>1. RunInv => RunIsAccounted
      BY DEF RunInv
<1> QED BY <1>1, RunInvHolds, PTL

=============================================================================
