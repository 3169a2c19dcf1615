--------------------------- MODULE RuntimeSettings --------------------------
(* The connections to model providers, the catalog of their models, and the   *)
(* choices made from them: one model per slot, globally or for a workspace,   *)
(* and for the chat slot a pool of models of which one is the default.  The   *)
(* chat reads the pool first and the slot only if no model of the pool is the *)
(* default.                                                                   *)
(*                                                                            *)
(* Every change is one transaction: it reads what it needs, decides, and      *)
(* writes the columns whose value it changed.  Nothing is locked before the   *)
(* first write, so what it writes is merged with what others committed since. *)
(* Only the listing of a provider's models keeps its transaction open across  *)
(* a call to the outside.  All connections are of the provider "qwen" and     *)
(* each offers one model per slot, so a connection stands for its model.      *)
EXTENDS Integers, FiniteSets

CONSTANTS
    Admins,             \* transactions that may be open at one time
    Tenants,            \* workspaces
    LastConnection,     \* bound: connections, 1..LastConnection by their id
    LastChange          \* bound: transactions begun

ASSUME SettingsAssumption ==
    /\ LastConnection \in Nat \ {0} /\ LastChange \in Nat
    /\ "global" \notin Tenants

VARIABLES
    settings,       \* the committed rows: [connection, catalog, pool, choice]
    change,         \* [Admins -> Change]
    begun           \* transactions begun, 0..LastChange

settingsVars == <<settings, change, begun>>

Connections == 1..LastConnection
NoChoice == 0
SlotNames == {"chat", "rerank"}
Scopes == Tenants \cup {"global"}

\* A connection is there when it declares a capability. A choice is the row of
\* a slot in a scope, a pool entry the row of a chat model in a scope.
Rows ==
    [connection : [Connections -> SUBSET SlotNames],
     catalog : [Connections \X SlotNames -> {"out", "in"}],
     pool : [Scopes \X Connections -> {"out", "in", "default"}],
     choice : [Scopes \X SlotNames -> Connections \cup {NoChoice}]]

Operations ==
    [kind : {"choose"}, scope : Scopes, slot : SlotNames, on : Connections]
        \cup [kind : {"drop"}, scope : Scopes, slot : SlotNames]
        \cup [kind : {"add"}, scope : Scopes, on : Connections, first : BOOLEAN]
        \cup [kind : {"rotate", "remove"}, scope : Scopes, on : Connections]
        \cup [kind : {"connect", "sync"}, on : Connections, caps : SUBSET SlotNames]
        \cup [kind : {"disconnect"}, on : Connections]

\* `seen` is what the transaction read, `wanted` what it makes of that, and
\* `updated` the catalog rows it writes whatever they hold (last_seen_at).
Change ==
    [step : {"idle"}] \cup [step : {"listing"}, op : Operations]
        \cup [step : {"writing"}, op : Operations, seen : Rows, wanted : Rows,
              updated : SUBSET (Connections \X SlotNames)]

NoChange == [step |-> "idle"]

SettingsTypeOK ==
    /\ settings \in Rows
    /\ begun \in 0..LastChange
    /\ change \in [Admins -> Change]

\* The connections have been created and nothing has been listed or chosen yet.
SettingsInit ==
    /\ settings =
           [connection |-> [c \in Connections |-> SlotNames],
            catalog |-> [x \in Connections \X SlotNames |-> "out"],
            pool |-> [x \in Scopes \X Connections |-> "out"],
            choice |-> [x \in Scopes \X SlotNames |-> NoChoice]]
    /\ change = [a \in Admins |-> NoChange]
    /\ begun = 0

----------------------------------------------------------------------------
(* Reading the settings.                                                     *)

Pool(s, scope) == {c \in Connections : s.pool[scope, c] # "out"}
Defaults(s, scope) == {c \in Connections : s.pool[scope, c] = "default"}
LeastOf(S) == CHOOSE c \in S : \A d \in S : c <= d

\* A workspace without a pool of its own uses the global one.
EffectivePool(s, scope) == IF Pool(s, scope) = {} THEN "global" ELSE scope

EffectiveChoice(s, scope, slot) ==
    IF s.choice[scope, slot] # NoChoice
    THEN s.choice[scope, slot]
    ELSE s.choice["global", slot]

\* What a slot resolves to in a scope, or NoChoice.
Resolved(s, scope, slot) ==
    LET defaults == Defaults(s, EffectivePool(s, scope)) IN
    IF slot = "chat" /\ defaults # {}
    THEN LeastOf(defaults)
    ELSE EffectiveChoice(s, scope, slot)

----------------------------------------------------------------------------
(* What each operation makes of the rows it read. An operation that is       *)
(* refused leaves them as they are.                                          *)

\* The pool with c in it, and c its only default if it is to be the default.
Entered(pool, scope, c, default) ==
    [x \in DOMAIN pool |->
        CASE x = <<scope, c>> /\ default -> "default"
          [] x = <<scope, c>> /\ ~default /\ pool[x] = "out" -> "in"
          [] x[1] = scope /\ x[2] # c /\ default /\ pool[x] = "default" -> "in"
          [] OTHER -> pool[x]]

\* A chat model enters the pool. The first of a pool is its default, and the
\* default is also the choice of the slot.
Added(s, scope, c, first) ==
    LET default == first \/ Pool(s, scope) = {}
        pool == Entered(s.pool, scope, c, default)
    IN  [s EXCEPT !.pool = pool,
                  !.choice[<<scope, "chat">>] = IF pool[scope, c] = "default" THEN c ELSE @]

\* A definition whose name ends in Fault is the definition after it with a
\* plausible bug. No specification uses it: the properties must notice it.
SlotChosenFault(s, scope, slot, c) == [s EXCEPT !.choice[<<scope, slot>>] = c]

\* A model is chosen for a slot; for the chat it enters the pool as default.
SlotChosen(s, scope, slot, c) ==
    [s EXCEPT !.choice[<<scope, slot>>] = c,
              !.pool = IF slot = "chat" THEN Entered(@, scope, c, TRUE) ELSE @]

SlotDropped(s, scope, slot) == [s EXCEPT !.choice[<<scope, slot>>] = NoChoice]

\* A model of the pool becomes the default. The global pool asks the connection
\* for the capability again.
Rotated(s, scope, c) ==
    IF c \in Pool(s, scope) /\ (scope = "global" => "chat" \in s.connection[c])
    THEN SlotChosen(s, scope, "chat", c)
    ELSE s

\* A model leaves the pool, unless it is the last of it or its default.
Removed(s, scope, c) ==
    IF c \in Pool(s, scope) \ Defaults(s, scope) /\ Cardinality(Pool(s, scope)) > 1
    THEN [s EXCEPT !.pool[<<scope, c>>] = "out"]
    ELSE s

\* The catalog loses the models that serve no declared slot.
Pruned(s, c) ==
    [s EXCEPT !.catalog =
        [x \in DOMAIN @ |->
            IF x[1] = c /\ x[2] \notin s.connection[c] THEN "out" ELSE @[x]]]

\* A connection is created or its capabilities are edited. The slots and the
\* pools that use it are not looked at.
Connected(s, c, caps) == Pruned([s EXCEPT !.connection[c] = caps], c)

\* ON DELETE CASCADE: every row that names the connection goes with it.
Disconnected(s, c) ==
    [connection |-> [s.connection EXCEPT ![c] = {}],
     catalog |-> [x \in DOMAIN s.catalog |-> IF x[1] = c THEN "out" ELSE s.catalog[x]],
     pool |-> [x \in DOMAIN s.pool |-> IF x[2] = c THEN "out" ELSE s.pool[x]],
     choice |-> [x \in DOMAIN s.choice |->
                    IF s.choice[x] = c THEN NoChoice ELSE s.choice[x]]]

\* The change a workspace's or the global settings take.
Outcome(s, op) ==
    CASE op.kind = "choose" /\ op.slot \in s.connection[op.on] ->
             SlotChosen(s, op.scope, op.slot, op.on)
      [] op.kind = "drop" -> SlotDropped(s, op.scope, op.slot)
      [] op.kind = "add" /\ "chat" \in s.connection[op.on] ->
             Added(s, op.scope, op.on, op.first)
      [] op.kind = "rotate" -> Rotated(s, op.scope, op.on)
      [] op.kind = "remove" -> Removed(s, op.scope, op.on)
      [] op.kind = "connect" -> Connected(s, op.on, op.caps)
      [] op.kind = "disconnect" -> Disconnected(s, op.on)
      [] OTHER -> s

----------------------------------------------------------------------------
(* The listing of a provider's models.                                       *)

\* The service model that a listing leaves out is seeded where it is declared.
Seeded(s) == {<<c, "rerank">> : c \in {d \in Connections : "rerank" \in s.connection[d]}}

\* The connections the catalog offers a model of for a slot.
Candidates(s, slot) ==
    {c \in Connections : s.catalog[c, slot] = "in" /\ slot \in s.connection[c]}

\* The defaults that are missing are taken from the catalog.
Filled(s) ==
    LET chats == Candidates(s, "chat")
        chat == IF Pool(s, "global") = {} /\ s.choice["global", "chat"] = NoChoice /\ chats # {}
                THEN Added(s, "global", LeastOf(chats), TRUE) ELSE s
        reranks == Candidates(chat, "rerank")
    IN  IF chat.choice["global", "rerank"] = NoChoice /\ reranks # {}
        THEN SlotChosen(chat, "global", "rerank", LeastOf(reranks)) ELSE chat

\* The catalog rows a listing of c writes, of the models it offered.
Upserted(s, c, offered) == {<<c, m>> : m \in offered} \cup Seeded(s)

Synced(s, c, offered) ==
    LET listed == [s EXCEPT !.catalog =
                      [x \in DOMAIN @ |->
                          IF x \in Upserted(s, c, offered) THEN "in" ELSE @[x]]]
    IN  Pruned(Filled(listed), c)

----------------------------------------------------------------------------
(* The transactions.                                                         *)

Write(a, op, seen, wanted, updated) ==
    change' = [change EXCEPT ![a] =
        [step |-> "writing", op |-> op, seen |-> seen, wanted |-> wanted,
         updated |-> updated]]

\* A request that would change nothing is not followed any further.
BeginSetting(a, op) ==
    /\ change[a] = NoChange
    /\ begun < LastChange
    /\ begun' = begun + 1
    /\ Outcome(settings, op) # settings
    /\ Write(a, op, settings, Outcome(settings, op), {})
    /\ UNCHANGED settings

ChangeGlobal(a) ==
    \E op \in Operations :
        /\ op.kind \in {"choose", "drop", "add", "rotate", "remove"}
        /\ op.scope = "global"
        /\ BeginSetting(a, op)

ChangeWorkspace(a) ==
    \E op \in Operations :
        /\ op.kind \in {"choose", "drop", "add", "rotate", "remove"}
        /\ op.scope \in Tenants
        /\ BeginSetting(a, op)

ChangeConnection(a) ==
    \E op \in Operations :
        /\ op.kind \in {"connect", "disconnect"}
        /\ op.kind = "connect" => op.caps # {}
        /\ BeginSetting(a, op)

\* The connection is read, then the provider is asked for its models.
AskModels(a, c) ==
    /\ change[a] = NoChange
    /\ begun < LastChange
    /\ begun' = begun + 1
    /\ settings.connection[c] # {}
    /\ change' = [change EXCEPT ![a] =
           [step |-> "listing",
            op |-> [kind |-> "sync", on |-> c, caps |-> settings.connection[c]]]]
    /\ UNCHANGED settings

\* The provider answers, perhaps that it has no listing. The session still holds
\* the connection as it read it.
ListModels(a) ==
    /\ change[a].step = "listing"
    /\ LET op == change[a].op
           read == [settings EXCEPT !.connection[op.on] = op.caps]
       IN  \E offered \in SUBSET SlotNames :
               Write(a, op, read, Synced(read, op.on, offered),
                     Upserted(read, op.on, offered))
    /\ UNCHANGED <<settings, begun>>

ListingFails(a) ==
    /\ change[a].step = "listing"
    /\ change' = [change EXCEPT ![a] = NoChange]
    /\ UNCHANGED <<settings, begun>>

\* A row that the transaction did not change keeps what others made of it.
Merged(now, seen, wanted) ==
    [table \in DOMAIN now |->
        [x \in DOMAIN now[table] |->
            IF wanted[table][x] = seen[table][x]
            THEN now[table][x]
            ELSE wanted[table][x]]]

\* What a row holds when it is not there.
NoSetting(table) ==
    CASE table = "connection" -> {}
      [] table = "choice" -> NoChoice
      [] OTHER -> "out"

\* Each row inserted must still be absent, each row updated still there.
WritesFit(now, seen, wanted) ==
    \A table \in DOMAIN now : \A x \in DOMAIN now[table] :
        wanted[table][x] \notin {seen[table][x], NoSetting(table)} =>
            (now[table][x] = NoSetting(table)) = (seen[table][x] = NoSetting(table))

\* The connections that the rows written refer to.
Referred(seen, wanted) ==
    {x[1] : x \in {y \in DOMAIN wanted.catalog : wanted.catalog[y] # seen.catalog[y]
                                                     /\ wanted.catalog[y] = "in"}}
        \cup {x[2] : x \in {y \in DOMAIN wanted.pool : seen.pool[y] = "out"
                                                     /\ wanted.pool[y] # "out"}}
        \cup {wanted.choice[x] :
                  x \in {y \in DOMAIN wanted.choice : wanted.choice[y] # seen.choice[y]
                                                     /\ wanted.choice[y] # NoChoice}}

Fits(now, r) ==
    /\ WritesFit(now, r.seen, r.wanted)
    /\ \A c \in Referred(r.seen, r.wanted) : now.connection[c] # {}
    /\ \A x \in r.updated : now.catalog[x] = r.seen.catalog[x]

CommitChange(a) ==
    /\ change[a].step = "writing"
    /\ Fits(settings, change[a])
    /\ LET r == change[a]
           merged == Merged(settings, r.seen, r.wanted)
       IN  settings' = IF r.op.kind = "disconnect"
                       THEN Disconnected(merged, r.op.on) ELSE merged
    /\ change' = [change EXCEPT ![a] = NoChange]
    /\ UNCHANGED begun

\* A key that is taken, a row that is gone or a connection that is gone fails
\* the request, and the transaction is rolled back.
AbortChange(a) ==
    /\ change[a].step = "writing"
    /\ ~Fits(settings, change[a])
    /\ change' = [change EXCEPT ![a] = NoChange]
    /\ UNCHANGED <<settings, begun>>

SettingsNext ==
    \E a \in Admins :
        \/ ChangeGlobal(a) \/ ChangeWorkspace(a) \/ ChangeConnection(a)
        \/ \E c \in Connections : AskModels(a, c)
        \/ ListModels(a) \/ ListingFails(a)
        \/ CommitChange(a) \/ AbortChange(a)

SettingsSpec == SettingsInit /\ [][SettingsNext]_settingsVars

----------------------------------------------------------------------------
(* Properties.                                                               *)

ChangeCommits(a) == change[a].step = "writing" /\ Fits(settings, change[a]) /\ change'[a] = NoChange

\* The pool of the scope is still the one that the transaction of a read.
PoolUnchanged(a) ==
    \A c \in Connections :
        settings.pool[change[a].op.scope, c] = change[a].seen.pool[change[a].op.scope, c]

\* So is the choice of its chat slot.
ChoiceUnchanged(a) ==
    settings.choice[change[a].op.scope, "chat"] = change[a].seen.choice[change[a].op.scope, "chat"]

\* No slot, no pool and no catalog ever names a connection that was deleted,
\* however the deletion and the choice of the connection interleave.
ChoicesExist ==
    LET gone == {c \in Connections : settings.connection[c] = {}} IN
    \A c \in gone :
        /\ \A m \in SlotNames : settings.catalog[c, m] = "out"
        /\ \A scope \in Scopes :
               settings.pool[scope, c] = "out" /\ \A m \in SlotNames : settings.choice[scope, m] # c

\* Making a chat model the default, over its slot or in the pool, makes the chat
\* of that scope use it, and the pool has no other default, if no other request
\* changed the pool meanwhile; unless one changed the slot, the two places a chat
\* model is chosen in agree.
RotationTakesEffect ==
    [][\A a \in Admins :
        (/\ ChangeCommits(a)
         /\ \/ change[a].op.kind = "rotate"
            \/ change[a].op.kind = "choose" /\ change[a].op.slot = "chat"
            \/ change[a].op.kind = "add" /\ change[a].op.first
         /\ PoolUnchanged(a))
        => LET op == change[a].op IN
           /\ Resolved(settings', op.scope, "chat") = op.on
           /\ ChoiceUnchanged(a) => settings'.choice[op.scope, "chat"] = op.on
           /\ Defaults(settings', op.scope) = {op.on}]_settingsVars

\* Deleting a model of a pool changes the chat model of no scope, whether the
\* scope has a pool of its own or inherits it, if no other request changed the
\* pool meanwhile.
RemovalIsQuiet ==
    [][\A a \in Admins :
        (ChangeCommits(a) /\ change[a].op.kind = "remove" /\ PoolUnchanged(a))
        => \A scope \in Scopes :
               Resolved(settings', scope, "chat") = Resolved(settings, scope, "chat")]_settingsVars

\* A listing of models only fills in what nobody chose: whatever was chosen, or
\* was being chosen while the provider was asked, it never changes the choice of
\* a slot.
SyncOnlyFills ==
    [][\A a \in Admins :
        (ChangeCommits(a) /\ change[a].op.kind = "sync")
        => \A x \in Scopes \X SlotNames :
               settings.choice[x] # NoChoice => settings'.choice[x] = settings.choice[x]]_settingsVars

\* Changes of the settings that overlap leave choices that exist, take effect when
\* they are made and are not undone by a listing or a deletion.
ChoicesKept ==
    /\ []ChoicesExist
    /\ RotationTakesEffect
    /\ RemovalIsQuiet
    /\ SyncOnlyFills

\* Every pool of chat models has exactly one default. The code does not provide
\* it: the connection of the default may be deleted, and two requests that make
\* a default at the same time both succeed.
ExactlyOneDefault ==
    \A scope \in Scopes : Pool(settings, scope) # {} => Cardinality(Defaults(settings, scope)) = 1

=============================================================================
