-------------------------- MODULE SchemaMigrations ---------------------------
(* The revisions of the database, upgraded and downgraded with the rows of a  *)
(* running installation in it.  A revision is two sequences of statements,   *)
(* each as its file has it; a command runs those of every revision up to its *)
(* target in one transaction, and a statement that the database refuses      *)
(* leaves the database as it was.                                            *)
EXTENDS Integers, FiniteSets, Sequences

CONSTANTS
    RetryCap,       \* the greatest max_retries: 25 in the code
    LastTry         \* bound: attempts of a job

ASSUME MigrationsAssumption == RetryCap \in Nat /\ LastTry \in Nat \ {0}

VARIABLES
    revision,       \* how many revisions are applied
    database        \* the schema and the rows that a revision tells apart

migrationVars == <<revision, database>>

LegacyStatuses == {"queued", "running", "succeeded", "blocked", "dead_letter"}
JobStatuses == LegacyStatuses \cup {"cancelled"}
FirstEvents == {"created", "released"}
LegacyEvents == FirstEvents \cup {"retried"}
PlatformEvents == LegacyEvents \cup {"expired", "cancelled"}
Slots == {"chat", "vision"}
Logins == {"ana", "Ana"}

Least(a, b) == IF a < b THEN a ELSE b
Greatest(a, b) == IF a < b THEN b ELSE a

\* `numbers` are the attempt numbers of the rows of job_attempts.
Job == [status : JobStatuses, attempts : 0..LastTry, max : 1..Greatest(LastTry, RetryCap) + 1,
        priority : {"ordinary", "extreme"}, scope : {"workspace", "system"},
        count : 0..LastTry, retries : 0..LastTry, limit : 0..RetryCap,
        numbers : SUBSET (1..LastTry)]

NoRows == [jobs |-> {}, event |-> {}, session |-> {}, slot |-> {}, passage |-> {}, login |-> {}]

\* The constraints that rows may offend, each with its table.
TableOf == [status |-> "jobs", priority |-> "jobs", scope |-> "jobs", limit |-> "jobs",
            event |-> "job_events", session |-> "chat_sessions",
            slot |-> "runtime_slot_defaults", passage |-> "retrieved_chunks"]
Checks == DOMAIN TableOf

\* `admits` has {} where there is no constraint.  A key carries the names that
\* its constraint was named for.
EmptyDatabase ==
    [tables |-> {}, columns |-> {}, keys |-> {}, admits |-> [c \in Checks |-> {}],
     rows |-> NoRows, sound |-> TRUE]

MigrationsInit == revision = 0 /\ database = EmptyDatabase

-----------------------------------------------------------------------------
(* The statements.                                                           *)

\* A definition whose name ends in Fault is the definition after it with a
\* plausible bug.  No specification uses it: the properties must notice it.

CreateTable(t, refs) == [do |-> "create", table |-> t, refs |-> refs]
DropTable(t) == [do |-> "remove", table |-> t]
AddColumns(t, columns) == [do |-> "add", table |-> t, columns |-> columns]
DropColumns(t, columns) == [do |-> "drop", table |-> t, columns |-> columns]
AddKey(t, column, to) == [do |-> "key", table |-> t, column |-> column, to |-> to]
DropKey(t, column) == [do |-> "unkey", table |-> t, column |-> column]
Admit(check, values) == [do |-> "check", check |-> check, values |-> values]
\* A loop over tables counts as one statement: `pairs` and `stems` are sets.
RenameTables(pairs) == [do |-> "rename", pairs |-> pairs]
RenameColumns(ts, column, new) == [do |-> "column", tables |-> ts, column |-> column, new |-> new]
RenameKeys(stems) == [do |-> "stem", stems |-> stems]
Rewrite(how) == [do |-> "rewrite", how |-> how]

Held(rows, check) ==
    IF TableOf[check] = "jobs" THEN {j[check] : j \in rows.jobs} ELSE rows[check]

Emptied(rows, t) ==
    [f \in DOMAIN rows |->
        IF f = "jobs"
        THEN IF t = "jobs" THEN {}
             ELSE IF t = "job_attempts" THEN {[j EXCEPT !.numbers = {}] : j \in rows.jobs}
             ELSE rows.jobs
        ELSE IF f = "login" THEN IF t = "users" THEN {} ELSE rows.login
        ELSE IF TableOf[f] = t THEN {} ELSE rows[f]]

\* The counters are columns of jobs.
Forgotten(j) == [j EXCEPT !.count = 0, !.retries = 0, !.limit = 0]

Backfilled(j) ==
    [j EXCEPT !.count = j.attempts,
              !.retries = IF j.status = "blocked" THEN 0 ELSE Least(j.attempts, j.max),
              !.limit = Least(Greatest(j.max - 1, 0), RetryCap)]

\* _recover_legacy_running_jobs: an attempt that is over for every running job.
Recovered(j) ==
    IF j.status # "running" THEN j
    ELSE [j EXCEPT !.numbers = @ \cup {Greatest(j.count, 1)},
                   !.count = Greatest(j.count, 1),
                   !.status = IF j.attempts >= j.max THEN "dead_letter" ELSE "queued"]

Rewritten(rows, how) ==
    CASE how = "backfill"  -> [rows EXCEPT !.jobs = {Backfilled(j) : j \in @}]
      [] how = "recover"   -> [rows EXCEPT !.jobs = {Recovered(j) : j \in @},
                                           !.event = @ \cup {"expired" : j \in {k \in rows.jobs : k.status = "running"}}]
      [] how = "uncancel"  -> [rows EXCEPT !.session = {IF s = "canceled" THEN "failed" ELSE s : s \in @}]
      [] how = "canonical" -> [rows EXCEPT !.login = {<<l[1], "ana">> : l \in @}]

Unique(logins) == \A l, m \in logins : l[2] = m[2] => l = m

\* One statement.  A table that another refers to is not dropped.
Executed(db, s) ==
    CASE s.do = "create" ->
           [db EXCEPT !.tables = @ \cup {s.table},
                      !.keys = @ \cup {[table |-> s.table, column |-> c, to |-> s.refs[c],
                                        stem |-> <<s.table, c>>] : c \in DOMAIN s.refs},
                      !.sound = /\ @ /\ s.table \notin db.tables
                                /\ \A c \in DOMAIN s.refs : s.refs[c] \in db.tables \cup {s.table}]
      [] s.do = "remove" ->
           [db EXCEPT !.tables = @ \ {s.table},
                      !.columns = {c \in @ : c[1] # s.table},
                      !.keys = {k \in @ : k.table # s.table},
                      !.admits = [c \in Checks |-> IF TableOf[c] = s.table THEN {} ELSE @[c]],
                      !.rows = Emptied(@, s.table),
                      !.sound = /\ @ /\ s.table \in db.tables
                                /\ \A k \in db.keys : k.to = s.table => k.table = s.table]
      [] s.do = "add" ->
           [db EXCEPT !.columns = @ \cup {<<s.table, c>> : c \in s.columns},
                      !.sound = /\ @ /\ s.table \in db.tables
                                /\ \A c \in s.columns : <<s.table, c>> \notin db.columns]
      [] s.do = "drop" ->
           [db EXCEPT !.columns = @ \ {<<s.table, c>> : c \in s.columns},
                      !.keys = {k \in @ : ~(k.table = s.table /\ k.column \in s.columns)},
                      !.rows.jobs = IF s.table = "jobs" /\ "attempt_count" \in s.columns
                                    THEN {Forgotten(j) : j \in @} ELSE @,
                      !.sound = @ /\ \A c \in s.columns : <<s.table, c>> \in db.columns]
      [] s.do = "key" ->
           [db EXCEPT !.keys = @ \cup {[table |-> s.table, column |-> s.column, to |-> s.to,
                                        stem |-> <<s.table, s.column>>]},
                      !.sound = @ /\ {s.table, s.to} \subseteq db.tables]
      [] s.do = "unkey" ->
           [db EXCEPT !.keys = {k \in @ : k.stem # <<s.table, s.column>>},
                      !.sound = @ /\ \E k \in db.keys : k.table = s.table /\ k.stem = <<s.table, s.column>>]
      [] s.do = "check" ->
           [db EXCEPT !.admits[s.check] = s.values,
                      !.sound = @ /\ (s.values # {} => Held(db.rows, s.check) \subseteq s.values)]
      [] s.do = "rename" ->
           LET New(t) == IF \E p \in s.pairs : p[1] = t
                         THEN (CHOOSE p \in s.pairs : p[1] = t)[2] ELSE t IN
           [db EXCEPT !.tables = {New(t) : t \in @},
                      !.columns = {<<New(c[1]), c[2]>> : c \in @},
                      !.keys = {[k EXCEPT !.table = New(@), !.to = New(@)] : k \in @},
                      !.sound = @ /\ \A p \in s.pairs : p[1] \in db.tables /\ p[2] \notin db.tables]
      [] s.do = "column" ->
           LET Is(t, c) == t \in s.tables /\ c = s.column IN
           [db EXCEPT !.columns = {IF Is(c[1], c[2]) THEN <<c[1], s.new>> ELSE c : c \in @},
                      !.keys = {IF Is(k.table, k.column) THEN [k EXCEPT !.column = s.new] ELSE k : k \in @},
                      !.sound = @ /\ \A t \in s.tables :
                                    \E k \in db.keys : k.table = t /\ k.column = s.column]
      [] s.do = "stem" ->
           LET Is(k, r) == k.table = r[1] /\ k.stem = r[2] IN
           [db EXCEPT !.keys = {IF \E r \in s.stems : Is(k, r)
                                THEN [k EXCEPT !.stem = (CHOOSE r \in s.stems : Is(k, r))[3]]
                                ELSE k : k \in @},
                      !.sound = @ /\ \A r \in s.stems : \E k \in db.keys : Is(k, r)]
      [] s.do = "rewrite" ->
           LET rows == Rewritten(db.rows, s.how) IN
           [db EXCEPT !.rows = rows, !.sound = @ /\ Unique(rows.login)]

Performed(db, statements) ==
    LET after[n \in 0..Len(statements)] ==
            IF n = 0 THEN db ELSE Executed(after[n - 1], statements[n])
    IN  after[Len(statements)]

-----------------------------------------------------------------------------
(* The revisions, oldest first.  Only what later revisions or the rows above  *)
(* depend on is named: tables, references, columns that come and go.         *)

NoKeys == [c \in {} |-> ""]

UpDocuments ==
    <<CreateTable("projects", NoKeys),
      CreateTable("sources", [project_id |-> "projects"]),
      CreateTable("documents", [project_id |-> "projects", source_id |-> "sources"]),
      CreateTable("document_versions", [document_id |-> "documents"])>>
UpChunks ==
    <<CreateTable("chunks", [document_version_id |-> "document_versions",
                        prev_chunk_id |-> "chunks", next_chunk_id |-> "chunks"]),
      CreateTable("chunk_sparse_embeddings", [chunk_id |-> "chunks"])>>
DownDomain ==
    <<DropTable("chunk_sparse_embeddings"), DropTable("chunks"), DropTable("document_versions"),
      DropTable("documents"), DropTable("sources"), DropTable("projects")>>

UpQueue ==
    <<CreateTable("jobs", [project_id |-> "projects"]),
      Admit("scope", {"workspace"}), Admit("status", LegacyStatuses),
      CreateTable("job_events", [project_id |-> "projects", job_id |-> "jobs"]),
      Admit("event", FirstEvents)>>
DownQueue == <<DropTable("job_events"), DropTable("jobs")>>

UpEmbeddingMetadata == <<AddColumns("chunks", {"embedding_metadata"})>>
DownEmbeddingMetadata == <<DropColumns("chunks", {"embedding_metadata"})>>

UpChatSessions ==
    <<CreateTable("chat_sessions", [project_id |-> "projects"]),
      Admit("session", {"running", "succeeded", "failed"}),
      CreateTable("chat_messages", [project_id |-> "projects", session_id |-> "chat_sessions"]),
      CreateTable("tool_calls", [project_id |-> "projects", session_id |-> "chat_sessions"])>>
UpRetrievalRuns ==
    <<CreateTable("retrieval_runs", [project_id |-> "projects", session_id |-> "chat_sessions",
                                tool_call_id |-> "tool_calls"]),
      CreateTable("retrieved_chunks", [project_id |-> "projects", retrieval_run_id |-> "retrieval_runs",
                                  chunk_id |-> "chunks"]),
      Admit("passage", {"chunk"})>>
UpProviderUsage ==
    <<CreateTable("provider_usage", [project_id |-> "projects", session_id |-> "chat_sessions",
                                job_id |-> "jobs"])>>
DownChatAudit ==
    <<DropTable("provider_usage"), DropTable("retrieved_chunks"), DropTable("retrieval_runs"),
      DropTable("tool_calls"), DropTable("chat_messages"), DropTable("chat_sessions")>>

UpGraph == <<CreateTable("graph_projections", [project_id |-> "projects"])>>
DownGraph == <<DropTable("graph_projections")>>

UpRetried == <<Admit("event", FirstEvents \cup {"retried"})>>
DownRetried == <<Admit("event", FirstEvents)>>

UpSparseScore == <<AddColumns("retrieved_chunks", {"sparse_score"})>>
DownSparseScore == <<DropColumns("retrieved_chunks", {"sparse_score"})>>

UpConnections ==
    <<CreateTable("provider_connections", NoKeys),
      CreateTable("provider_secrets", [connection_id |-> "provider_connections"])>>
DownConnections == <<DropTable("provider_secrets"), DropTable("provider_connections")>>

UpSlotDefaults ==
    <<CreateTable("runtime_slot_defaults", [connection_id |-> "provider_connections"]),
      Admit("slot", {"chat"}),
      CreateTable("global_chat_models", [connection_id |-> "provider_connections"])>>
DownSlotDefaults == <<DropTable("global_chat_models"), DropTable("runtime_slot_defaults")>>

UpOverrides ==
    <<CreateTable("project_runtime_slot_overrides",
             [project_id |-> "projects", connection_id |-> "provider_connections"]),
      CreateTable("project_chat_models",
             [project_id |-> "projects", connection_id |-> "provider_connections"])>>
DownOverrides == <<DropTable("project_chat_models"), DropTable("project_runtime_slot_overrides")>>

UpCatalog == <<CreateTable("provider_model_catalog", [connection_id |-> "provider_connections"])>>
DownCatalog == <<DropTable("provider_model_catalog")>>

\* b2c3d4e5f6a7 changes the default of a column that nothing here tells apart.
UpDefaultMode == << >>
DownDefaultMode == << >>

UpUsers ==
    <<CreateTable("users", NoKeys),
      CreateTable("user_access_tokens", [user_id |-> "users"]),
      CreateTable("project_memberships", [project_id |-> "projects", user_id |-> "users"]),
      AddColumns("chat_sessions", {"user_id"}), AddKey("chat_sessions", "user_id", "users")>>
UpProposals ==
    <<CreateTable("knowledge_proposals",
             [project_id |-> "projects", submitted_by_user_id |-> "users",
              origin_session_id |-> "chat_sessions", origin_message_id |-> "chat_messages",
              approved_source_id |-> "sources", reviewed_by_user_id |-> "users"])>>
DownAuth ==
    <<DropTable("knowledge_proposals"), DropColumns("chat_sessions", {"user_id"}),
      DropTable("project_memberships"), DropTable("user_access_tokens"), DropTable("users")>>

UpSidebar == <<AddColumns("chat_sessions", {"title", "title_is_custom", "archived_at"})>>
DownSidebar == <<DropColumns("chat_sessions", {"archived_at", "title_is_custom", "title"})>>

UpLastProject ==
    <<AddColumns("users", {"last_project_id"}), AddKey("users", "last_project_id", "projects")>>
DownLastProject ==
    <<DropKey("users", "last_project_id"), DropColumns("users", {"last_project_id"})>>

UpRetrievalSettings ==
    <<CreateTable("global_chat_retrieval_settings", NoKeys),
      CreateTable("project_chat_retrieval_settings", [project_id |-> "projects"])>>
DownRetrievalSettings ==
    <<DropTable("project_chat_retrieval_settings"), DropTable("global_chat_retrieval_settings")>>

UpSoftDelete == <<AddColumns("projects", {"deleted_at"}), AddColumns("sources", {"deleted_at"})>>
DownSoftDelete == <<DropColumns("sources", {"deleted_at"}), DropColumns("projects", {"deleted_at"})>>

UpMemory ==
    <<CreateTable("user_memories",
             [project_id |-> "projects", user_id |-> "users", reviewed_by_user_id |-> "users"])>>
DownMemory == <<DropTable("user_memories")>>

UpPassageNull ==
    <<Admit("passage", {"chunk", "null"}),
      DropKey("retrieved_chunks", "chunk_id"), AddKey("retrieved_chunks", "chunk_id", "chunks")>>
DownPassageNull ==
    <<DropKey("retrieved_chunks", "chunk_id"), AddKey("retrieved_chunks", "chunk_id", "chunks"),
      Admit("passage", {"chunk"})>>

UpCanceled == <<Admit("session", {"running", "succeeded", "failed", "canceled"})>>
DownCanceled == <<Rewrite("uncancel"), Admit("session", {"running", "succeeded", "failed"})>>

UpAttachments ==
    <<CreateTable("chat_attachments",
             [project_id |-> "projects", user_id |-> "users", session_id |-> "chat_sessions"])>>
DownAttachments == <<DropTable("chat_attachments")>>

UpVision == <<Admit("slot", Slots)>>
DownVision == <<Admit("slot", {"chat"})>>

UpTaskState == <<CreateTable("system_task_state", NoKeys)>>
DownTaskState == <<DropTable("system_task_state")>>

-----------------------------------------------------------------------------
(* m3n4o5p6q7r8: projects become workspaces.                                  *)

TableRenames ==
    {<<"projects", "workspaces">>, <<"project_memberships", "workspace_memberships">>,
     <<"project_runtime_slot_overrides", "workspace_runtime_slot_overrides">>,
     <<"project_chat_models", "workspace_chat_models">>,
     <<"project_chat_retrieval_settings", "workspace_chat_retrieval_settings">>}
RenamedTables == {p[2] : p \in TableRenames} \ {"workspaces"}

\* A table that came with a later feature is forgotten.
ColumnTablesFault ==
    {"sources", "documents", "chat_sessions", "chat_messages", "tool_calls", "retrieval_runs",
     "retrieved_chunks", "provider_usage", "jobs", "job_events", "user_memories",
     "knowledge_proposals", "graph_projections"} \cup RenamedTables

ColumnTables ==
    {"sources", "documents", "chat_sessions", "chat_messages", "chat_attachments", "tool_calls",
     "retrieval_runs", "retrieved_chunks", "provider_usage", "jobs", "job_events",
     "user_memories", "knowledge_proposals", "graph_projections"} \cup RenamedTables

\* _fk_renames: <<table, the names its key is named for, the new ones>>.
FkRenames ==
    LET Was(t) == IF t \in RenamedTables
                  THEN (CHOOSE p \in TableRenames : p[2] = t)[1] ELSE t
        Other(t, c) == <<t, <<Was(t), c>>, <<t, c>>>>
    IN  {<<t, <<Was(t), "project_id">>, <<t, "workspace_id">>>> : t \in ColumnTables}
        \cup {<<"users", <<"users", "last_project_id">>, <<"users", "last_workspace_id">>>>,
              Other("workspace_chat_models", "connection_id"),
              Other("workspace_memberships", "user_id"),
              Other("workspace_runtime_slot_overrides", "connection_id")}

UpWorkspaces ==
    <<RenameTables(TableRenames), RenameColumns(ColumnTables, "project_id", "workspace_id"),
      RenameColumns({"users"}, "last_project_id", "last_workspace_id"), RenameKeys(FkRenames)>>

DownWorkspaces ==
    <<RenameKeys({<<r[1], r[3], r[2]>> : r \in FkRenames}),
      RenameColumns(ColumnTables, "workspace_id", "project_id"),
      RenameColumns({"users"}, "last_workspace_id", "last_project_id"),
      RenameTables({<<p[2], p[1]>> : p \in TableRenames})>>

-----------------------------------------------------------------------------
(* p5q6r7s8t9u0, the job platform, and q6r7s8t9u0v1, the accounts of people.  *)

UpQueueTables ==
    <<CreateTable("job_queues", NoKeys),
      CreateTable("job_queue_workspace_state", [queue_name |-> "job_queues"])>>

UpScheduleTable ==
    <<CreateTable("job_schedules", [workspace_id |-> "workspaces", queue_name |-> "job_queues"])>>

JobColumns == {"scope", "queue_name", "handler_version", "result_json", "idempotency_key",
               "idempotency_fingerprint", "attempt_count", "retry_count", "max_retries",
               "schedule_id", "scheduled_for", "concurrency_key", "cancellation_requested_at",
               "cancellation_requested_by_actor_type", "cancellation_requested_by_actor_id",
               "last_error_code", "last_error_message", "last_trace_id", "finished_at", "version"}

UpJobColumns == <<AddColumns("jobs", JobColumns)>>

UpBackfill == <<Rewrite("backfill")>>

UpJobChecks ==
    <<Admit("scope", {"workspace", "system"}), Admit("status", JobStatuses),
      Admit("limit", 0..RetryCap), Admit("priority", {"ordinary"}),
      AddKey("jobs", "queue_name", "job_queues"), AddKey("jobs", "schedule_id", "job_schedules")>>

UpAttempts ==
    <<CreateTable("job_attempts", [job_id |-> "jobs", workspace_id |-> "workspaces"]),
      AddColumns("jobs", {"current_attempt_id"}), AddKey("jobs", "current_attempt_id", "job_attempts")>>

UpEvents ==
    <<AddColumns("job_events", {"scope", "attempt_id", "actor_type", "actor_id"}),
      Admit("event", PlatformEvents), AddKey("job_events", "attempt_id", "job_attempts")>>

UpRecover == <<Rewrite("recover")>>
UpWorkers == <<CreateTable("job_workers", NoKeys)>>
UpTrigger == <<AddColumns("jobs", {"trg_jobs_notify_insert"})>>

UpPlatform ==
    UpQueueTables \o UpScheduleTable \o UpJobColumns \o UpBackfill \o UpJobChecks \o UpAttempts
    \o UpEvents \o UpRecover \o UpWorkers \o UpTrigger

DownPlatform ==
    <<DropColumns("jobs", {"trg_jobs_notify_insert"}), DropTable("job_workers"),
      DropKey("job_events", "attempt_id"), Admit("event", LegacyEvents),
      DropColumns("job_events", {"actor_id", "actor_type", "attempt_id", "scope"}),
      DropKey("jobs", "current_attempt_id"), DropColumns("jobs", {"current_attempt_id"}),
      DropTable("job_attempts"), DropKey("jobs", "schedule_id"), DropKey("jobs", "queue_name"),
      Admit("priority", {}), Admit("limit", {}), Admit("status", LegacyStatuses),
      Admit("scope", {"workspace"}), DropColumns("jobs", JobColumns),
      DropTable("job_schedules"), DropTable("job_queue_workspace_state"), DropTable("job_queues")>>

\* "collisions intentionally fail migration".
UpHumanAuth ==
    <<Rewrite("canonical"), CreateTable("user_password_credentials", [user_id |-> "users"]),
      CreateTable("user_sessions", [user_id |-> "users"]), CreateTable("login_attempts", NoKeys)>>
DownHumanAuth ==
    <<DropTable("login_attempts"), DropTable("user_sessions"), DropTable("user_password_credentials")>>

Up == <<UpDocuments \o UpChunks, UpQueue, UpEmbeddingMetadata,
        UpChatSessions \o UpRetrievalRuns \o UpProviderUsage, UpGraph, UpRetried, UpSparseScore,
        UpConnections, UpSlotDefaults, UpOverrides, UpCatalog, UpDefaultMode,
        UpUsers \o UpProposals, UpSidebar, UpLastProject, UpRetrievalSettings, UpSoftDelete,
        UpMemory, UpPassageNull, UpCanceled, UpAttachments, UpVision, UpWorkspaces, UpTaskState,
        UpPlatform, UpHumanAuth>>

Down == <<DownDomain, DownQueue, DownEmbeddingMetadata, DownChatAudit, DownGraph, DownRetried,
          DownSparseScore, DownConnections, DownSlotDefaults, DownOverrides, DownCatalog,
          DownDefaultMode, DownAuth, DownSidebar, DownLastProject, DownRetrievalSettings,
          DownSoftDelete, DownMemory, DownPassageNull, DownCanceled, DownAttachments, DownVision,
          DownWorkspaces, DownTaskState, DownPlatform, DownHumanAuth>>

Newest == Len(Up)
WorkspacesAt == Newest - 3
PlatformAt == Newest - 1
HumanAuthAt == Newest

-----------------------------------------------------------------------------
(* The commands, and the program of the revision in between.                  *)

Migrated(db, revisions) ==
    LET after[n \in 0..Len(revisions)] ==
            IF n = 0 THEN db ELSE Performed(after[n - 1], revisions[n])
    IN  after[Len(revisions)]

\* Every revision up to the target in one transaction.
UpgradeTo(target) ==
    /\ target > revision
    /\ database' = Migrated(database, SubSeq(Up, revision + 1, target))
    /\ database'.sound
    /\ revision' = target

DowngradeTo(target) ==
    /\ target < revision
    /\ database' = Migrated(database, [n \in 1..revision - target |-> Down[revision + 1 - n]])
    /\ database'.sound
    /\ revision' = target

Accepts(rows) ==
    \A c \in Checks : database.admits[c] # {} => Held(rows, c) \subseteq database.admits[c]

\* What a program has written by the time of the command, as far as the
\* constraints of its revision accept it: rows of one table.
Writes(table, rows) ==
    /\ table \in database.tables /\ database.rows = NoRows /\ Accepts(rows)
    /\ database' = [database EXCEPT !.rows = rows]
    /\ UNCHANGED revision

LegacyJob(status, attempts, max, priority) ==
    [status |-> status, attempts |-> attempts, max |-> max, priority |-> priority,
     scope |-> "workspace", count |-> 0, retries |-> 0, limit |-> 0, numbers |-> {}]

\* A job of the platform counts in the old columns as well.
PlatformJob(status, count, retries, limit, scope) ==
    [status |-> status, attempts |-> count, max |-> limit + 1, priority |-> "ordinary",
     scope |-> scope, count |-> count, retries |-> retries, limit |-> limit, numbers |-> 1..count]

WriteLegacyJob ==
    /\ revision < PlatformAt
    /\ \E status \in LegacyStatuses, attempts \in 0..LastTry, max \in 1..LastTry + 1,
          priority \in {"ordinary", "extreme"} :
          Writes("jobs", [NoRows EXCEPT !.jobs = {LegacyJob(status, attempts, max, priority)}])

WritePlatformJob ==
    /\ revision >= PlatformAt
    /\ \E status \in JobStatuses, count \in 0..LastTry, limit \in 0..RetryCap,
          scope \in {"workspace", "system"} :
          \E retries \in 0..Least(count, limit) :
             /\ status = "running" => count > 0
             /\ Writes("jobs", [NoRows EXCEPT !.jobs = {PlatformJob(status, count, retries, limit, scope)}])

WriteOther ==
    \/ \E e \in PlatformEvents : Writes("job_events", [NoRows EXCEPT !.event = {e}])
    \/ \E s \in {"running", "succeeded", "failed", "canceled"} :
          Writes("chat_sessions", [NoRows EXCEPT !.session = {s}])
    \/ \E s \in Slots : Writes("runtime_slot_defaults", [NoRows EXCEPT !.slot = {s}])
    \/ \E p \in {"chunk", "null"} : Writes("retrieved_chunks", [NoRows EXCEPT !.passage = {p}])

WriteUsers ==
    \E one, other \in Logins :
       /\ one # other /\ (revision = HumanAuthAt => one = "ana")
       /\ Writes("users", [NoRows EXCEPT !.login =
                              IF revision = HumanAuthAt THEN {<<1, one>>} ELSE {<<1, one>>, <<2, other>>}])

MigrationsNext ==
    \/ \E target \in {revision + 1, Newest} \cap 1..Newest : UpgradeTo(target)
    \/ \E target \in {revision - 1, 0} \cap 0..Newest : DowngradeTo(target)
    \/ WriteLegacyJob \/ WritePlatformJob \/ WriteOther \/ WriteUsers

MigrationsSpec == MigrationsInit /\ [][MigrationsNext]_migrationVars

MigrationsTypeOK ==
    /\ revision \in 0..Newest
    /\ database.rows.jobs \subseteq Job /\ database.rows.event \subseteq PlatformEvents
    /\ database.rows.slot \subseteq Slots
    /\ \A l \in database.rows.login : l[1] \in 1..2 /\ l[2] \in Logins
    /\ \A k \in database.keys : k.table \in database.tables /\ k.to \in database.tables

-----------------------------------------------------------------------------
SchemaOf(db) == [db EXCEPT !.rows = NoRows]

\* The schema of a database that has only been upgraded.
Built == [r \in 0..Newest |-> Migrated(EmptyDatabase, SubSeq(Up, 1, r))]

\* The schema is that of its revision, by whatever way up and down the database
\* came to it and whatever rows it has.
SchemaIsOfRevision == SchemaOf(database) = Built[revision]

\* After the renaming nothing of the schema is called after projects, and every
\* key has the name that its table and its column give it; before it, nothing is
\* called after workspaces.
RenameIsWhole ==
    LET Projects == {p[1] : p \in TableRenames} \cup {"project_id", "last_project_id"}
        Renamed == {p[2] : p \in TableRenames} \cup {"workspace_id", "last_workspace_id"}
        Called == database.tables \cup UNION {{k.column, k.stem[1], k.stem[2]} : k \in database.keys}
    IN /\ Called \cap (IF revision >= WorkspacesAt THEN Projects ELSE Renamed) = {}
       /\ \A k \in database.keys : k.stem = <<k.table, k.column>>

Taken(statements) == Performed(database, statements).sound

\* The database takes the next revision, up, unless two people are called the
\* same, or the priority of a job is out of bounds.  An empty one is taken down
\* as well, and so is a canceled conversation.
RefusalsAreKnown ==
    /\ revision < Newest /\ ~Taken(Up[revision + 1]) =>
          \/ revision + 1 = HumanAuthAt /\ Cardinality(database.rows.login) > 1
          \/ revision + 1 = PlatformAt /\ \E j \in database.rows.jobs : j.priority = "extreme"
    /\ revision > 0 /\ (database.rows = NoRows \/ database.rows.session # {}) =>
          Taken(Down[revision])

\* A job of the platform can be claimed: the number of its next attempt is not
\* that of an earlier one, and a job that runs has the attempt it runs.
NextNumberIsFree ==
    revision >= PlatformAt =>
        \A j \in database.rows.jobs :
           /\ \A n \in j.numbers : n <= j.count
           /\ j.status = "running" => j.count \in j.numbers

\* A job that waits when the platform takes it over may run as many times as it
\* could before; one that had used its attempts does not run again.
BudgetSurvives ==
    [][revision < PlatformAt /\ revision' >= PlatformAt =>
         \A j \in database'.rows.jobs :
            j.status = "queued" /\ j.attempts < j.max /\ j.max <= RetryCap + 1
               => j.limit - j.retries + 1 = j.max - j.attempts]_migrationVars

\* By whatever way up and down: the schema is that of its revision, named as a
\* whole, refusals are known, and the jobs go on where they were.
MigrationsAgree ==
    /\ [](SchemaIsOfRevision /\ RenameIsWhole /\ RefusalsAreKnown /\ NextNumberIsFree)
    /\ BudgetSurvives

=============================================================================
