----------------------------- MODULE JobListing -----------------------------
(* A client pages through the jobs, newest first, while jobs are created and *)
(* deleted.  created_at is taken before the insert commits, and from the     *)
(* clocks of different hosts, so that jobs appear anywhere in the order.     *)
EXTENDS Naturals, FiniteSets

CONSTANTS
    ListedIds,  \* job ids, numbers so that they are ordered
    Times,      \* values of created_at
    PageLimit

ASSUME ListingAssumption ==
    /\ ListedIds \subseteq Nat /\ IsFiniteSet(ListedIds) /\ Times \subseteq Nat \ {0}
    /\ PageLimit \in Nat \ {0}

VARIABLES
    createdAt,  \* [ListedIds -> Times \cup {0}]: 0 where there is no such row
    listing     \* the client

listingVars == <<createdAt, listing>>

\* `cursor` is the last item of the last page, `first` what was there when the
\* client began, `seen` what it got, `twice` what it got more than once.
Listing ==
    [state : {"idle", "open", "done"}, cursor : {<<>>} \cup (Times \X ListedIds),
     first : SUBSET ListedIds, seen : SUBSET ListedIds, twice : SUBSET ListedIds]

ListingTypeOK ==
    /\ createdAt \in [ListedIds -> Times \cup {0}]
    /\ listing \in Listing

ListingInit ==
    /\ createdAt = [j \in ListedIds |-> 0]
    /\ listing = [state |-> "idle", cursor |-> <<>>, first |-> {}, seen |-> {}, twice |-> {}]

Listed == {j \in ListedIds : createdAt[j] # 0}

\* A definition whose name ends in Fault is the definition after it with a
\* plausible bug.  No specification uses it: the properties must notice it.

\* By time alone.
BehindFault(j, cursor) == IF cursor = <<>> THEN TRUE ELSE createdAt[j] < cursor[1]

\* In the order of created_at and then of the id, both descending.
Behind(j, cursor) ==
    \/ cursor = <<>>
    \/ createdAt[j] < cursor[1]
    \/ createdAt[j] = cursor[1] /\ j < cursor[2]

\* ORDER BY created_at DESC, id DESC.
Precedes(i, j) ==
    createdAt[i] > createdAt[j] \/ (createdAt[i] = createdAt[j] /\ i > j)

\* The first n of a set of jobs in that order.
FirstOf(S, n) == {j \in S : Cardinality({i \in S : Precedes(i, j)}) < n}

\* list_page asks for one item more than a page holds; next_cursor is the last
\* item of the page if there are more.
ReadPage ==
    LET rest == {j \in Listed : Behind(j, listing.cursor)}
        visible == FirstOf(rest, PageLimit)
    IN  /\ listing.state # "done"
        /\ listing' =
              [state |-> IF Cardinality(rest) > PageLimit THEN "open" ELSE "done",
               cursor |-> IF Cardinality(rest) > PageLimit
                          THEN LET j == CHOOSE j \in visible : \A i \in visible \ {j} : Precedes(i, j)
                               IN  <<createdAt[j], j>>
                          ELSE listing.cursor,
               first |-> IF listing.state = "idle" THEN Listed ELSE listing.first,
               seen |-> listing.seen \cup visible,
               twice |-> listing.twice \cup (visible \cap listing.seen)]
        /\ UNCHANGED createdAt

\* Under a new id: no job comes back that the client knew.
JobAppears(j, t) ==
    /\ createdAt[j] = 0 /\ j \notin listing.first \cup listing.seen
    /\ createdAt' = [createdAt EXCEPT ![j] = t]
    /\ UNCHANGED listing

\* By retention, or with its workspace.
JobDisappears(j) ==
    /\ createdAt[j] # 0
    /\ createdAt' = [createdAt EXCEPT ![j] = 0]
    /\ UNCHANGED listing

ListingNext ==
    \/ ReadPage
    \/ \E j \in ListedIds : JobDisappears(j) \/ \E t \in Times : JobAppears(j, t)

ListingSpec == ListingInit /\ [][ListingNext]_listingVars

-----------------------------------------------------------------------------
\* A listing that went to its end has shown every job that was there from its
\* first to its last page, and none of them twice, whatever came and went.
ListingComplete ==
    listing.state = "done" => listing.first \cap Listed \subseteq listing.seen /\ listing.twice = {}

=============================================================================
