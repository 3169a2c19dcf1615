----------------------------- MODULE MCServices -----------------------------
(* Small instances of the services behind the API and of its chat, and of  *)
(* the migrations of their database.  They share no state, so that a       *)
(* behaviour is one of one part, while the others stay in an initial       *)
(* state.                                                                  *)
EXTENDS Accounts, HumanSessions, JobRequests, JobListing, SystemTask, ChatTurn,
        ChatRun, KnowledgeReviews, RuntimeSettings, SchemaMigrations

VARIABLE service    \* the part a behaviour is of

servicesVars ==
    <<accountsVars, sessionVars, requestVars, listingVars, taskVars,
      chatTurnVars, runVars, reviewVars, settingsVars, migrationVars,
      service>>

Others(part) ==
    /\ part # "accounts" => UNCHANGED accountsVars
    /\ part # "sessions" => UNCHANGED sessionVars
    /\ part # "requests" => UNCHANGED requestVars
    /\ part # "listing" => UNCHANGED listingVars
    /\ part # "task" => UNCHANGED taskVars
    /\ part # "turns" => UNCHANGED chatTurnVars
    /\ part # "run" => UNCHANGED runVars
    /\ part # "reviews" => UNCHANGED reviewVars
    /\ part # "settings" => UNCHANGED settingsVars
    /\ part # "migrations" => UNCHANGED migrationVars

ServicesInit ==
    /\ service \in {"accounts", "sessions", "requests", "listing", "task",
                   "turns", "run", "reviews", "settings", "migrations"}
    /\ AccountsInit
    /\ SessionsInit
    /\ service # "sessions" =>
           \A p \in People : account[p] = FreshAccount(FALSE)
    /\ RequestsInit
    /\ ListingInit
    /\ TaskInit
    /\ ChatTurnInit
    /\ service # "turns" =>
           \A t \in Turns :
               /\ turn[t].kind = "plain"
               /\ turn[t].process = CHOOSE p \in Processes : TRUE
    /\ RunInit
    /\ service # "run" =>
           ~runner.second
    /\ ReviewsInit
    /\ SettingsInit
    /\ MigrationsInit

ServicesNext ==
    /\ UNCHANGED service /\ Others(service)
    /\ \/ service = "accounts" /\ AccountsNext
       \/ service = "sessions" /\ SessionsNext
       \/ service = "requests" /\ RequestsNext
       \/ service = "listing" /\ ListingNext
       \/ service = "task" /\ TaskNext
       \/ service = "turns" /\ ChatTurnNext
       \/ service = "run" /\ RunNext
       \/ service = "reviews" /\ ReviewsNext
       \/ service = "settings" /\ SettingsNext
       \/ service = "migrations" /\ MigrationsNext

ServicesSpec == ServicesInit /\ [][ServicesNext]_servicesVars

\* The state of every part has its type.
ServicesTypeOK ==
    /\ AccountsTypeOK
    /\ SessionsTypeOK
    /\ RequestsTypeOK
    /\ ListingTypeOK
    /\ TaskTypeOK
    /\ ChatTurnTypeOK
    /\ RunTypeOK
    /\ ReviewsTypeOK
    /\ SettingsTypeOK
    /\ MigrationsTypeOK

=============================================================================
