-------------------------- MODULE KnowledgeReviews --------------------------
(* Knowledge that people offer and people review: the proposals of a          *)
(* workspace, which an approval turns into a source with its ingestion job,   *)
(* and the memories of a user, which an approval puts into the context of     *)
(* every chat turn.                                                           *)
(*                                                                           *)
(* Each request reads the row it is about, decides, and writes the columns it *)
(* changes.  Nothing locks the row before the first write, and no write names *)
(* the status that was read.                                                  *)
EXTENDS Integers, FiniteSets

CONSTANTS
    Proposals,
    Reviews,        \* requests about a proposal or a memory
    NoReview,       \* NULL
    LastMemory,     \* bound: memories of the user, 1..LastMemory by their time
    MaxInjected     \* max_items

ASSUME ReviewsAssumption == NoReview \notin Reviews /\ LastMemory \in Nat /\ MaxInjected \in Nat \ {0}

VARIABLES
    proposal,       \* the committed rows
    source,         \* source[p]: the sources named after p, each by its text
    review,         \* the requests
    memory,         \* the committed rows of the user's memories
    belongs,         \* the user is a member of the workspace
    lastReview,     \* lastReview[m]: the answer to the last review of m
    injected        \* the memories in the context of the present turn

reviewVars == <<proposal, source, review, memory, belongs, lastReview, injected>>

Memories == 1..LastMemory
Author == Reviews \cup {NoReview}

\* refined and note name the request that wrote them; NoReview is NULL.
Proposal == [status : {"none", "pending", "approved", "rejected"}, refined : Author,
             note : Author, hasSource : BOOLEAN]
ProposalOps == {"approve", "refineApprove", "refine", "reject"}
MemoryOps == {"accept", "dismiss", "edit"}
Review == [pc : {"idle", "asked", "refined", "sourced", "ok", "refused"},
           op : ProposalOps \cup MemoryOps \cup {"none"},
           of : Proposals \cup Memories \cup {NoReview}, seen : Author]
Memory == [status : {"none", "proposed", "approved", "rejected"}, scoped : BOOLEAN]

ReviewsTypeOK ==
    /\ proposal \in [Proposals -> Proposal]
    /\ source \in [Proposals -> SUBSET Author]
    /\ review \in [Reviews -> Review]
    /\ memory \in [Memories -> Memory] /\ belongs \in BOOLEAN
    /\ lastReview \in [Memories -> {"none", "approved", "rejected"}]
    /\ injected \subseteq Memories

ReviewsInit ==
    /\ proposal = [p \in Proposals |-> [status |-> "none", refined |-> NoReview,
                                        note |-> NoReview, hasSource |-> FALSE]]
    /\ source = [p \in Proposals |-> {}]
    /\ review = [r \in Reviews |-> [pc |-> "idle", op |-> "none", of |-> NoReview, seen |-> NoReview]]
    /\ memory = [m \in Memories |-> [status |-> "none", scoped |-> FALSE]]
    /\ belongs = TRUE
    /\ lastReview = [m \in Memories |-> "none"]
    /\ injected = {}

-----------------------------------------------------------------------------
\* A definition whose name ends in Fault is the definition after it with a
\* plausible bug.  No specification uses it: the properties must notice it.

MemoryRows == <<memory, belongs, lastReview, injected>>
At(r, pc) == review[r].pc = pc
ReviewGoes(r, pc) == review' = [review EXCEPT ![r].pc = pc]

\* A viewer submits; a contributor submits and approves in one transaction.
Submit(p) ==
    /\ proposal[p].status = "none"
    /\ \/ proposal' = [proposal EXCEPT ![p].status = "pending"] /\ UNCHANGED source
       \/ /\ proposal' = [proposal EXCEPT ![p].status = "approved", ![p].hasSource = TRUE]
          /\ source' = [source EXCEPT ![p] = {NoReview}]
    /\ UNCHANGED <<review, MemoryRows>>

\* The row is read and must be pending.
AskProposal(r, op, p) ==
    /\ At(r, "idle") /\ proposal[p].status # "none"
    /\ review' = [review EXCEPT ![r] =
                    [pc |-> IF proposal[p].status = "pending" THEN "asked" ELSE "refused",
                     op |-> op, of |-> p, seen |-> proposal[p].refined]]
    /\ UNCHANGED <<proposal, source, MemoryRows>>

\* An approval with a new text has written the row and keeps its lock.
HasRow(r) == review[r].op = "refineApprove" /\ review[r].pc \in {"refined", "sourced"}
RowFree(p, r) == \A q \in Reviews \ {r} : ~(HasRow(q) /\ review[q].of = p)

RefineFirst(r) ==
    /\ At(r, "asked") /\ review[r].op = "refineApprove" /\ RowFree(review[r].of, r)
    /\ review' = [review EXCEPT ![r].pc = "refined", ![r].seen = r]
    /\ UNCHANGED <<proposal, source, MemoryRows>>

ReadyForSource(r) ==
    \/ At(r, "asked") /\ review[r].op = "approve"
    \/ At(r, "refined")
NamePending(p) == \E q \in Reviews : At(q, "sourced") /\ review[q].of = p

\* _create_approved_source: the insert waits for one of the same name, and fails
\* if there is one.
CreateSource(r) ==
    /\ ReadyForSource(r) /\ ~NamePending(review[r].of)
    /\ ReviewGoes(r, IF source[review[r].of] = {} THEN "sourced" ELSE "refused")
    /\ UNCHANGED <<proposal, source, MemoryRows>>

\* One has the row and waits for the name, another has the name and waits for
\* the row: the database aborts one of them.
BreakDeadlock(r, q) ==
    /\ review[r].op = "refineApprove" /\ At(r, "refined")
    /\ review[q].op = "approve" /\ At(q, "sourced") /\ review[q].of = review[r].of
    /\ ReviewGoes(r, "refused") \/ ReviewGoes(q, "refused")
    /\ UNCHANGED <<proposal, source, MemoryRows>>

\* The source is committed with its job before the review is written.
ApproveFault(r) ==
    LET p == review[r].of IN
    /\ At(r, "sourced")
    /\ source' = [source EXCEPT ![p] = @ \cup {review[r].seen}]
    /\ ReviewGoes(r, IF RowFree(p, r) THEN "ok" ELSE "refused")
    /\ UNCHANGED <<proposal, MemoryRows>>

\* Without a note the column is not written, whatever has come to stand there.
Approve(r) ==
    LET p == review[r].of IN
    /\ At(r, "sourced") /\ RowFree(p, r)
    /\ \E noted \in BOOLEAN :
          proposal' = [proposal EXCEPT ![p].status = "approved", ![p].hasSource = TRUE,
                            ![p].note = IF noted THEN r ELSE @,
                            ![p].refined = IF HasRow(r) THEN r ELSE @]
    /\ source' = [source EXCEPT ![p] = @ \cup {review[r].seen}]
    /\ ReviewGoes(r, "ok")
    /\ UNCHANGED MemoryRows

Reject(r) ==
    LET p == review[r].of IN
    /\ At(r, "asked") /\ review[r].op = "reject" /\ RowFree(p, r)
    /\ proposal' = [proposal EXCEPT ![p].status = "rejected", ![p].note = r]
    /\ ReviewGoes(r, "ok")
    /\ UNCHANGED <<source, MemoryRows>>

Refine(r) ==
    LET p == review[r].of IN
    /\ At(r, "asked") /\ review[r].op = "refine" /\ RowFree(p, r)
    /\ proposal' = [proposal EXCEPT ![p].refined = r]
    /\ ReviewGoes(r, "ok")
    /\ UNCHANGED <<source, MemoryRows>>

-----------------------------------------------------------------------------
ProposalRows == <<proposal, source>>

\* A memory of the workspace needs access to it, one of the user alone does not.
Propose(m) ==
    /\ memory[m].status = "none" /\ \A k \in 1..(m - 1) : memory[k].status # "none"
    /\ \E scoped \in BOOLEAN :
          /\ scoped => belongs
          /\ memory' = [memory EXCEPT ![m] = [status |-> "proposed", scoped |-> scoped]]
    /\ UNCHANGED <<ProposalRows, review, belongs, lastReview, injected>>

AllowedFrom(op) == CASE op = "accept"  -> {"proposed", "rejected"}
                     [] op = "dismiss" -> {"proposed", "approved"}
                     [] op = "edit"    -> {"proposed"}

AskMemory(r, op, m) ==
    /\ At(r, "idle") /\ memory[m].status # "none"
    /\ review' = [review EXCEPT ![r] =
                    [pc |-> IF /\ memory[m].status \in AllowedFrom(op)
                               /\ op = "accept" => (memory[m].scoped => belongs)
                            THEN "asked" ELSE "refused",
                     op |-> op, of |-> m, seen |-> NoReview]]
    /\ UNCHANGED <<ProposalRows, MemoryRows>>

\* update_content writes the content alone.
EditMemory(r) ==
    /\ At(r, "asked") /\ review[r].op = "edit"
    /\ ReviewGoes(r, "ok")
    /\ UNCHANGED <<ProposalRows, MemoryRows>>

ReviewMemory(r) ==
    /\ At(r, "asked") /\ review[r].op \in {"accept", "dismiss"}
    /\ LET status == IF review[r].op = "accept" THEN "approved" ELSE "rejected" IN
          /\ memory' = [memory EXCEPT ![review[r].of].status = status]
          /\ lastReview' = [lastReview EXCEPT ![review[r].of] = status]
    /\ ReviewGoes(r, "ok")
    /\ UNCHANGED <<ProposalRows, belongs, injected>>

ChangeMembership ==
    /\ belongs' = ~belongs
    /\ UNCHANGED <<ProposalRows, review, memory, lastReview, injected>>

Approved(m) == memory[m].status = "approved"

\* A turn in the workspace begins: the newest approved memories.
Inject ==
    /\ belongs
    /\ injected' = {m \in Memories : Approved(m)
                        /\ Cardinality({k \in Memories : k > m /\ Approved(k)}) < MaxInjected}
    /\ UNCHANGED <<ProposalRows, review, memory, belongs, lastReview>>

\* The client that was answered may ask again.
AskAgain(r) ==
    /\ review[r].pc \in {"ok", "refused"} /\ review[r].op \in MemoryOps
    /\ review' = [review EXCEPT ![r] = [pc |-> "idle", op |-> "none", of |-> NoReview, seen |-> NoReview]]
    /\ UNCHANGED <<ProposalRows, MemoryRows>>

ReviewsNext ==
    \/ \E p \in Proposals : Submit(p)
    \/ \E r \in Reviews, op \in ProposalOps, p \in Proposals : AskProposal(r, op, p)
    \/ \E r \in Reviews : RefineFirst(r) \/ CreateSource(r) \/ Approve(r) \/ Reject(r) \/ Refine(r)
    \/ \E r, q \in Reviews : BreakDeadlock(r, q)
    \/ \E m \in Memories : Propose(m)
    \/ \E r \in Reviews, op \in MemoryOps, m \in Memories : AskMemory(r, op, m)
    \/ \E r \in Reviews : EditMemory(r) \/ ReviewMemory(r) \/ AskAgain(r)
    \/ ChangeMembership \/ Inject

ReviewsSpec == ReviewsInit /\ [][ReviewsNext]_reviewVars

-----------------------------------------------------------------------------
Approvals(p) == {r \in Reviews : review[r].of = p /\ At(r, "ok")
                                   /\ review[r].op \in {"approve", "refineApprove"}}

\* However many reviewers approve a proposal at once, one of them is told that
\* it is approved and it has one source; a submission of a contributor counts as
\* approved.
OneSourceEach ==
    \A p \in Proposals :
        /\ Cardinality(source[p]) <= 1
        /\ Cardinality(Approvals(p)) <= 1
        /\ Approvals(p) # {} => source[p] # {}

\* A source of a proposal is never without the proposal that names it: what
\* deletes or audits by the proposal finds it, even if a rejection came later.
SourceIsNamed ==
    \A p \in Proposals : source[p] # {} <=> proposal[p].hasSource

\* Whatever is in the context of a turn was approved by the last review of it
\* that was answered when the turn began, and there is no more of it than the
\* limit.
InjectedIsApproved ==
    [][injected' # injected =>
          /\ \A m \in injected' : lastReview[m] = "approved"
          /\ Cardinality(injected') <= MaxInjected]_reviewVars

\* Reviews that cross never leave a memory in a status other than that of the
\* last one that was answered: an edit does not take an approval back.
LastReviewStands ==
    \A m \in Memories : lastReview[m] # "none" => memory[m].status = lastReview[m]

\* Reviews that overlap end in one source of a proposal, and in memories that say
\* what their last review said.
ReviewsStand ==
    /\ [](OneSourceEach /\ SourceIsNamed /\ LastReviewStands)
    /\ InjectedIsApproved

=============================================================================
