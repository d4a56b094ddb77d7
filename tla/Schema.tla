------------------------------- MODULE Schema -------------------------------
(***************************************************************************)
(* The database schema and its migrations (pb_migrations/): what each      *)
(* migration requires, adds and removes, in file-name order, and what its  *)
(* rollback does.  The schema is a set of facts,                           *)
(*    <<c>>            collection c exists,                                *)
(*    <<c, f>>         c has the field (or the index) f,                   *)
(*    <<c, f, v>>      f only accepts listed values, v is one of them,     *)
(*    <<c, f, k, d>>   f relates to collection d; k says what deleting the *)
(*                     related record does: "blocks" (required relation),  *)
(*                     "clears" (optional) or "cascades".                  *)
(* Access rules, lengths, hidden and required flags of plain fields and    *)
(* autodate columns are left out; of a migration that only touches those,  *)
(* or only rewrites rows, what it requires of the schema is kept.          *)
(***************************************************************************)
EXTENDS Naturals, Sequences, FiniteSets, SequencesExt

VARIABLES
    schema,                     \* the facts that hold in the database
    applied,                    \* how many migrations are applied
    lowest,                     \* the lowest number a rollback went down to
    failing                     \* the last attempted migration failed

schemaVars == <<schema, applied, lowest, failing>>

-----------------------------------------------------------------------------
(* Facts and changes. *)

Fields(c, fs) == {<<c, f>> : f \in fs}
Collection(c, fs) == {<<c>>} \cup Fields(c, fs)
Values(c, f, vs) == {<<c, f, v>> : v \in vs}
Select(c, f, vs) == {<<c, f>>} \cup Values(c, f, vs)
Relates(c, f, k, d) == {<<c, f>>, <<c, f, k, d>>}

CollectionsIn(A) == {x[1] : x \in {y \in A : Len(y) = 1}}

\* What a set of added facts presupposes: the collections it mentions and
\* does not itself create (FindCollectionByNameOrId returns an error).
NeededBy(A) ==
    ({<<x[1]>> : x \in A} \cup {<<x[4]>> : x \in {y \in A : Len(y) = 4}}) \ A

\* One direction of a migration.  "absent": collections that must not exist
\* yet; "deletes": the collections app.Delete is called for, in order;
\* "forgiving": their failure is ignored; "drops": facts removed with all
\* that hangs off them; "relists": fields whose accepted values are replaced.
Nothing ==
    [needs |-> {}, absent |-> {}, deletes |-> <<>>, forgiving |-> FALSE,
     drops |-> {}, relists |-> {}, adds |-> {}]

Requires(N) == [Nothing EXCEPT !.needs = N]

Adds(A) == [Nothing EXCEPT !.needs = NeededBy(A), !.absent = CollectionsIn(A),
                           !.adds = A]

Deletes(cs) == [Nothing EXCEPT !.deletes = cs]

Drops(P) == [Nothing EXCEPT !.needs = {<<p[1]>> : p \in P}, !.drops = P]

Relists(c, f, vs) ==
    [Nothing EXCEPT !.needs = {<<c>>}, !.relists = {<<c, f>>},
                    !.adds = Values(c, f, vs)]

Together(a, b) ==
    [needs |-> a.needs \cup b.needs, absent |-> a.absent \cup b.absent,
     deletes |-> a.deletes \o b.deletes, forgiving |-> a.forgiving \/ b.forgiving,
     drops |-> a.drops \cup b.drops, relists |-> a.relists \cup b.relists,
     adds |-> a.adds \cup b.adds]

\* The relation field f of c to d changes from kind k1 to kind k2.
Rekinds(c, f, d, k1, k2) ==
    Together(Drops({<<c, f, k1, d>>}), Adds({<<c, f, k2, d>>}))

\* The usual rollback: delete the created collections, remove the rest.
Undo(A) ==
    Together(Deletes(SetToSeq(CollectionsIn(A))),
             Drops({x \in A : <<x[1]>> \notin A}))

Migration(name, up, down) == [name |-> name, up |-> up, down |-> down]
Reversible(name, A) == Migration(name, Adds(A), Undo(A))

-----------------------------------------------------------------------------
(* 01_init_collections.go: one set of facts for each create function. *)
CreateRepositories ==
         Collection("repositories", {"name", "git_url", "branch",
         "last_commit_sha", "last_fetched_at", "platform"})
    \cup Select("repositories", "status", {"connected", "error"})

CreateRepositoryCredentials ==
         Collection("repository_keys", {"ssh_private_key", "ssh_passphrase",
         "ssh_known_host", "git_username", "git_password"})
    \cup Relates("repository_keys", "repository", "blocks", "repositories")
    \cup Select("repository_keys", "auth_type", {"none", "ssh_key", "basic"})

CreateWorkers ==
         Collection("workers", {"hostname", "fingerprint", "last_seen",
         "health_history"})
    \cup Select("workers", "status", {"ACTIVE", "REVOKED"})

CreateStacks ==
         Collection("stacks", {"name", "compose_path", "compose_file",
         "poll_interval", "auto_sync", "last_synced_at", "webhook_secret",
         "current_version", "desired_commit", "checksum", "import_path",
         "import_recreate_volumes"})
    \cup Relates("stacks", "repository", "clears", "repositories")
    \cup Relates("stacks", "worker", "clears", "workers")
    \cup Select("stacks", "status", {"active", "syncing", "paused", "error",
         "pending"})
    \cup Select("stacks", "source_type", {"git", "local"})

CreateSyncLogs ==
         Collection("sync_logs", {"commit_sha", "commit_message", "output",
         "duration_ms"})
    \cup Relates("sync_logs", "stack", "blocks", "stacks")
    \cup Select("sync_logs", "trigger", {"cron", "webhook", "manual",
         "redeploy", "rollback", "transfer", "queue"})
    \cup Select("sync_logs", "status", {"running", "success", "error",
         "queued", "noop"})

CreateStackServices ==
         Collection("stack_services", {"service_name", "container_name",
         "status", "container_id", "last_checked_at"})
    \cup Relates("stack_services", "stack", "blocks", "stacks")

CreateStackEnvVars ==
         Collection("stack_env_vars", {"key", "value", "secret"})
    \cup Relates("stack_env_vars", "stack", "blocks", "stacks")

CreateStackSyncEvents ==
         Collection("stack_sync_events", {"provider", "url", "secret",
         "headers", "enabled", "ntfy_user", "ntfy_topic", "ntfy_template"})
    \cup Select("stack_sync_events", "events", {"sync.started", "sync.done",
         "sync.error", "sync.test"})

CreateStackRevisions ==
         Collection("stack_revisions", {"version", "commit_sha", "checksum",
         "compose_path"})
    \cup Relates("stack_revisions", "stack", "blocks", "stacks")

CreateStackPendingReconciles ==
         Collection("stack_pending_reconciles", {"commit_sha"})
    \cup Relates("stack_pending_reconciles", "stack", "blocks", "stacks")
    \cup Select("stack_pending_reconciles", "trigger", {"cron", "webhook",
         "manual", "redeploy", "rollback", "transfer"})

CreateInvites ==
    Collection("invites", {"email", "token", "expires_at", "used",
         "created_by"})

CreateScheduledJobs ==
         Collection("scheduled_jobs", {"job_file", "enabled", "last_run_at"})
    \cup Relates("scheduled_jobs", "repository", "blocks", "repositories")
    \cup Select("scheduled_jobs", "status", {"active", "paused", "stalled",
         "error"})

CreateJobEnvVars ==
         Collection("job_env_vars", {"key", "value", "secret"})
    \cup Relates("job_env_vars", "job", "blocks", "scheduled_jobs")

CreateJobRuns ==
         Collection("job_runs", {"output", "duration_ms", "expires_at",
         "container_name", "commit_sha"})
    \cup Relates("job_runs", "job", "blocks", "scheduled_jobs")
    \cup Relates("job_runs", "worker", "clears", "workers")
    \cup Select("job_runs", "trigger", {"cron", "manual"})
    \cup Select("job_runs", "status", {"pending", "running", "success",
         "error", "stalled", "forgotten"})

CreateIntegrations ==
    Collection("integrations", {"slug", "enabled", "config"})

CreateCollections ==
    UNION {CreateRepositories, CreateRepositoryCredentials, CreateWorkers,
           CreateStacks, CreateSyncLogs, CreateStackServices, CreateStackEnvVars,
           CreateStackSyncEvents, CreateStackRevisions,
           CreateStackPendingReconciles, CreateInvites, CreateScheduledJobs,
           CreateJobEnvVars, CreateJobRuns, CreateIntegrations}

\* The rollback ignores deletions that fail: workers is still referenced by
\* stacks when its turn comes.
M01 ==
    Migration("01", Adds(CreateCollections),
        [Deletes(<<"integrations", "job_runs", "job_env_vars", "scheduled_jobs",
                   "invites", "stack_pending_reconciles", "workers",
                   "stack_revisions", "stack_sync_events", "stack_env_vars",
                   "stack_services", "sync_logs", "stacks", "repository_keys",
                   "repositories">>) EXCEPT !.forgiving = TRUE])

-----------------------------------------------------------------------------
(* The other migrations, in the order they run. *)

\* Mutant of M03: the collection is misnamed.
M03_Misnamed == Migration("03", Requires({<<"worker">>}), Nothing)

M03 ==
    Migration("03", Requires({<<"workers">>}),
        Nothing)

M04 ==
    Reversible("04",
        Fields("workers", {"cert_not_after", "cert_serial"}))

M05 ==
    Reversible("05",
        Fields("workers", {"index_fingerprint"}))

M06a ==
    Reversible("06a",
        Fields("stack_env_vars", {"secret_provider"}))

M06b ==
    Reversible("06b",
              Collection("worker_tokens", {"token_hash", "expires_at",
               "last_used_at", "created_by"})
          \cup Select("worker_tokens", "status", {"STAGING", "ACTIVE",
               "REVOKED", "EXPIRED"})
          \cup Relates("worker_tokens", "worker", "clears", "workers"))

M07 ==
    Migration("07", Relists("stack_env_vars", "secret_provider", {"internal", ""}),
        Relists("stack_env_vars", "secret_provider", {}))

M08 ==
    Reversible("08",
        Collection("sso_users", {}))

M09 ==
    Migration("09", Requires({<<"sso_users">>}),
        Nothing)

M10 ==
    Reversible("10",
        Fields("sso_users", {"elevate_consumed",
               "elevate_consumed_at"}))

M11 ==
    Migration("11", Requires({<<"worker_tokens">>}),
        Requires({<<"worker_tokens">>}))

M12 ==
    Migration("12", Requires({<<"workers">>, <<"worker_tokens">>}),
        Nothing)

M13 ==
    Migration("13", Together(Relists("sync_logs", "status", {"running", "success",
        "error", "queued"}), Relists("scheduled_jobs", "status", {"active",
        "paused", "stalled", "error"})),
        Together(Relists("sync_logs", "status", {"running", "success",
        "error", "done", "queued"}), Relists("scheduled_jobs", "status",
        {"active", "paused", "stalled"})))

M14 ==
    Reversible("14",
              Collection("worker_commands", {"command_id", "payload",
               "result", "duration_ms", "expires_at"})
          \cup Relates("worker_commands", "worker", "blocks", "workers")
          \cup Select("worker_commands", "command_type", {"deploy",
               "redeploy", "teardown", "probe", "inspect", "get_status",
               "get_resources", "stop_container", "restart_container",
               "discover_projects", "read_file", "run_job", "kill_job"})
          \cup Select("worker_commands", "status", {"dispatched", "acked",
               "success", "error", "timed_out", "cancelled"}))

M15 ==
    Reversible("15",
        Fields("worker_commands", {"created_by"}))

M16 ==
    Reversible("16",
        Fields("scheduled_jobs", {"name", "description"}))

M17 ==
    Reversible("17",
        Fields("job_runs", {"started_at", "queue_time_ms",
               "execution_time_ms"}))

M18 ==
    Reversible("18",
              Collection("worker_policies", {"allowed_volumes",
               "allowed_networks", "allowed_images"})
          \cup Fields("workers", {"policy_inherit", "policy_volumes",
               "policy_networks", "policy_images"}))

M19 ==
    Reversible("19",
              Fields("worker_policies", {"prevent_latest_images",
               "block_host_volumes"})
          \cup Fields("workers", {"policy_flags"}))

M20 ==
    Reversible("20",
        Fields("worker_policies", {"enabled"}))

M21 ==
    Reversible("21",
        Fields("job_runs", {"index_job"}))

M22 ==
    Migration("22", Requires({<<"scheduled_jobs">>}),
        Nothing)

M23 ==
    Reversible("23",
        Collection("app_settings", {"timezone"}))

M24 ==
    Reversible("24",
              Collection("audit_logs", {"actor_id", "action",
               "resource_type", "resource_id", "error_code", "expires_at"})
          \cup Select("audit_logs", "actor_type", {"user", "system", "agent"})
          \cup Select("audit_logs", "status", {"success", "error"})
          \cup Fields("app_settings", {"audit_retention_days",
               "job_run_retention_days"}))

HardenedAudit ==
         Fields("audit_logs", {"metadata_json", "index_origin"})
    \cup Select("audit_logs", "origin", {"api", "setup", "system", "ui",
         "webhook", "worker"})

M25 ==
    Migration("25", Together(Relists("audit_logs", "actor_type", {"anonymous", "user",
        "system", "worker"}), Adds(HardenedAudit)),
        Together(Relists("audit_logs", "actor_type", {"user", "system",
        "agent"}), Undo(HardenedAudit)))

CreateRBACUsers ==
         Collection("users", {"name", "disabled", "protected"})
    \cup Select("users", "role", {"viewer", "operator", "admin"})

CreateServiceAccounts ==
         Collection("service_accounts", {"name", "description", "enabled",
         "key_hash", "key_prefix", "key_expires_at", "key_last_used_at",
         "key_revoked"})
    \cup Select("service_accounts", "role", {"viewer", "operator"})
    \cup Relates("service_accounts", "created_by", "clears", "users")

AddRoleToSSOUsers ==
    Select("sso_users", "role", {"viewer", "operator", "admin"})

AddRoleToInvites ==
    Select("invites", "role", {"viewer", "operator", "admin"})

CreateSSOGroupRoles ==
         Collection("sso_group_roles", {"group"})
    \cup Select("sso_group_roles", "role", {"viewer", "operator", "admin"})

AddSSOClaimSetting == Fields("app_settings", {"sso_groups_claim"})

ExpandAuditIdentityEnums ==
    Together(Relists("audit_logs", "actor_type",
                     {"anonymous", "user", "agent", "system", "worker"}),
             Relists("audit_logs", "origin",
                     {"api", "api_key", "setup", "system", "ui", "webhook", "worker"}))

ApplyRBACRules ==
    Requires({<<c>> : c \in {"repositories", "repository_keys", "workers", "stacks",
        "sync_logs", "stack_services", "stack_env_vars", "stack_sync_events",
        "stack_revisions", "scheduled_jobs", "job_env_vars", "job_runs",
        "audit_logs", "integrations", "app_settings"}})

\* The collections that exist already are left as they are, so none has to be
\* absent; the rollback deletes users even if PocketBase created it.
M26 ==
    LET facts == UNION {CreateRBACUsers, CreateServiceAccounts, AddRoleToSSOUsers,
                        AddRoleToInvites, CreateSSOGroupRoles, AddSSOClaimSetting}
    IN  Migration("26",
            Together([Adds(facts) EXCEPT !.absent = {}],
                     Together(ExpandAuditIdentityEnums, ApplyRBACRules)),
            [Deletes(<<"service_accounts", "sso_group_roles", "users">>)
                EXCEPT !.drops = {<<"sso_users", "role">>, <<"invites", "role">>,
                                  <<"app_settings", "sso_groups_claim">>}])

M27 ==
    Migration("27", Requires({<<"users">>}),
        Requires({<<"users">>}))

M28 ==
    Migration("28", Requires({<<"users">>, <<"sso_users">>, <<"invites">>}),
        Nothing)

M29 ==
    Reversible("29",
        Fields("users", {"is_sso"}))

M30 ==
    Migration("30", Requires({<<"repository_keys">>}),
        Requires({<<"repository_keys">>}))

M31 ==
    Migration("31", Nothing,
        Nothing)

M32 ==
    Reversible("32",
        Values("worker_commands", "command_type",
               {"get_container_stats", "get_container_logs"}))

M33 ==
    Reversible("33",
        Fields("workers", {"docker_version", "compose_version", "os",
               "arch", "cpu_usage", "memory_usage", "disk_usage",
               "docker_online"}))

M34 ==
    Reversible("34",
        Values("worker_commands", "command_type", {"get_metrics"}))

M35 ==
    Reversible("35", UNION {Values(c, "role", {"monitoring"}) :
        c \in {"users", "service_accounts", "invites", "sso_group_roles"}})

M36 == Migration("36", Deletes(<<"stack_sync_events">>), Nothing)

\* The duplicate check queries the column repository_keys.repository.
M37 ==
    LET index == Fields("repository_keys", {"index_repository"})
    IN  Migration("37",
            Together(Adds(index), Requires({<<"repository_keys", "repository">>})),
            Undo(index))

\* From one key per repository to keys any repository can name; the rollback
\* keeps the migrated data.
M38 ==
    Migration("38",
        Together(Together(Adds(Fields("repository_keys", {"name"})
                               \cup Relates("repositories", "repository_key",
                                            "clears", "repository_keys")),
                          Relists("repository_keys", "auth_type", {"ssh_key", "basic"})),
                 Drops(Fields("repository_keys", {"repository", "index_repository"}))),
        Nothing)

CreateGlobalEnvVars ==
    Collection("global_env_vars", {"key", "value", "secret",
         "secret_provider"})

CreateStackGlobalEnvVars ==
         Collection("stack_global_env_vars", {})
    \cup Relates("stack_global_env_vars", "stack", "blocks", "stacks")
    \cup Relates("stack_global_env_vars", "global_env_var", "blocks",
         "global_env_vars")

CreateJobGlobalEnvVars ==
         Collection("job_global_env_vars", {})
    \cup Relates("job_global_env_vars", "job", "blocks", "scheduled_jobs")
    \cup Relates("job_global_env_vars", "global_env_var", "blocks",
         "global_env_vars")

M39 ==
    Migration("39",
        [Adds(CreateGlobalEnvVars \cup CreateStackGlobalEnvVars \cup CreateJobGlobalEnvVars)
            EXCEPT !.absent = {}],
        Deletes(<<"job_global_env_vars", "stack_global_env_vars", "global_env_vars">>))

M40 ==
    Reversible("40",
        Values("sync_logs", "status", {"noop"}))

M41 ==
    Reversible("41",
        Fields("stacks", {"deployed_version", "deployed_commit",
               "deployed_checksum", "deployed_at"}))

M42 ==
    Reversible("42",
              Fields("worker_commands", {"message_id", "idempotency_key",
               "attempt_count", "next_attempt_at", "index_queue"})
          \cup Values("worker_commands", "status", {"queued"}))

M43 ==
    Reversible("43",
              Values("stacks", "status", {"degraded"})
          \cup Values("sync_logs", "status", {"degraded", "waiting_jobs"}))

M44 ==
    Reversible("44",
              Select("stacks", "wait_running_jobs", {"never", "always",
               "timeout"})
          \cup Fields("stacks", {"wait_running_jobs_timeout_seconds"}))

M45h ==
    Reversible("45h",
              Fields("worker_policies", {"block_privileged",
               "block_host_network", "block_host_pid", "block_host_ipc",
               "block_docker_socket", "allowed_cap_add", "allowed_devices",
               "allowed_security_opt"})
          \cup Fields("workers", {"policy_cap_add", "policy_devices",
               "policy_security_opt"}))

M45w ==
    Reversible("45w",
              Fields("stacks", {"remove_orphans", "force_pull",
               "deploy_timeout_seconds", "worker_tags", "wireops_file_path"})
          \cup Select("stacks", "config_source", {"manual", "wireops_file"}))

M46 ==
    Migration("46", Drops(Fields("stacks", {"poll_interval"})),
        Adds(Fields("stacks", {"poll_interval"})))

M47 ==
    Reversible("47",
        Fields("stacks", {"sync_interval_seconds"}))

M48 ==
    Reversible("48",
              Fields("sync_logs", {"correlation_id"})
          \cup Fields("worker_commands", {"acked_at"})
          \cup Collection("sync_log_phases", {"started_at", "duration_ms",
               "detail", "seq"})
          \cup Relates("sync_log_phases", "sync_log", "blocks", "sync_logs")
          \cup Select("sync_log_phases", "phase", {"git_fetch", "render",
               "policy_check", "dispatch", "worker_ack", "compose_up",
               "post_check", "notify"})
          \cup Select("sync_log_phases", "status", {"running", "success",
               "error", "skipped"}))

\* Mutants of M49: the relation stays required, or the rollback is forgotten.
M49_Blocks == Migration("49", Nothing, Nothing)
M49_OneWay ==
    Migration("49",
        Rekinds("sync_log_phases", "sync_log", "sync_logs", "blocks", "cascades"),
        Nothing)

M49 ==
    Migration("49", Rekinds("sync_log_phases", "sync_log", "sync_logs", "blocks",
        "cascades"),
        Rekinds("sync_log_phases", "sync_log", "sync_logs", "cascades",
        "blocks"))

M50 ==
    Reversible("50",
        Fields("workers", {"version"}))

M52 ==
    LET providers == {"internal", "vault", "infisical", ""}
        job == Select("job_env_vars", "secret_provider", providers)
    IN  Migration("52",
            Together(Together(Relists("stack_env_vars", "secret_provider", providers),
                              Relists("global_env_vars", "secret_provider", providers)),
                     Adds(job)),
            Together(Together(Relists("stack_env_vars", "secret_provider", {"internal", ""}),
                              Relists("global_env_vars", "secret_provider", {})),
                     Undo(job)))

M53 ==
    Reversible("53",
              Fields("repositories", {"sops_age_key", "sops_age_public_key"})
          \cup Fields("integrations", {"locked"}))

M54 ==
    Reversible("54",
        Collection("secret_key_canary", {"value"}))

M55 ==
    Reversible("55",
              Fields("stacks", {"render_overrides"})
          \cup Fields("worker_policies", {"allow_render_overrides"}))

M56 ==
    Reversible("56",
              Values("repository_keys", "auth_type", {"oauth_token"})
          \cup Fields("repository_keys", {"oauth_provider", "oauth_token",
               "oauth_refresh_token", "oauth_token_expires_at",
               "oauth_account_login"}))

M57 ==
    Reversible("57",
        Fields("users", {"tour_completed"}))

M58 ==
    Reversible("58",
        Values("sync_log_phases", "phase", {"secrets_fetch"}))

M59 ==
    Reversible("59",
        Values("sync_log_phases", "phase", {"lint"}))

M60 ==
    Reversible("60",
        Fields("stacks", {"secret_error"}))

M61 ==
    Reversible("61",
              Select("stacks", "last_error_category", {"sync", "deploy"})
          \cup Fields("stacks", {"last_error_message", "last_error_at"}))

M62 ==
    Migration("62", Nothing,
        Nothing)

M63 ==
    Migration("63", Requires({<<"integrations">>}),
        Nothing)

M64 ==
    Reversible("64",
        Fields("stacks", {"group"}))

CreateStackConfigFiles ==
         Collection("stack_config_files", {"name", "source_path", "target",
         "checksum"})
    \cup Relates("stack_config_files", "stack", "cascades", "stacks")

CreateJobConfigFiles ==
         Collection("job_config_files", {"name", "source_path", "target",
         "checksum"})
    \cup Relates("job_config_files", "job", "cascades", "scheduled_jobs")

M65 ==
    Migration("65", Adds(CreateStackConfigFiles \cup CreateJobConfigFiles),
        Deletes(<<"stack_config_files", "job_config_files">>))

M66 ==
    Reversible("66",
              Collection("terminal_sessions", {"session_id", "container_id",
               "transcript_path", "started_at", "ended_at", "exit_code",
               "expires_at"})
          \cup Relates("terminal_sessions", "stack", "blocks", "stacks")
          \cup Relates("terminal_sessions", "user", "blocks", "users")
          \cup Relates("terminal_sessions", "worker", "blocks", "workers")
          \cup Select("terminal_sessions", "status", {"open", "closed"})
          \cup Fields("app_settings", {"terminal_retention_days"}))

M67 ==
    LET copies == Fields("terminal_sessions", {"stack_name", "service_name",
                      "container_name", "user_email", "worker_hostname"})
        Each(k1, k2) ==
            Together(Rekinds("terminal_sessions", "stack", "stacks", k1, k2),
                     Together(Rekinds("terminal_sessions", "user", "users", k1, k2),
                              Rekinds("terminal_sessions", "worker", "workers", k1, k2)))
    IN  Migration("67", Together(Adds(copies), Each("blocks", "clears")),
                        Together(Undo(copies), Each("clears", "blocks")))

M68 ==
    Reversible("68",
        Fields("repositories", {"sync_interval_seconds"}))

M69 ==
    Reversible("69",
              Collection("registry_credentials", {"name", "registry_url",
               "username", "password", "insecure"})
          \cup Select("registry_credentials", "auth_type", {"basic", "token",
               "gcp_service_account"})
          \cup Relates("stacks", "registry_credential", "clears",
               "registry_credentials"))

M70 ==
    Migration("70", Requires({<<"sso_users">>}),
        Requires({<<"sso_users">>}))

\* Mutant of M71: the new trigger is not added to the list.
M71_Forgotten == Migration("71", Nothing, Nothing)

M71 ==
    Reversible("71",
        Values("sync_logs", "trigger", {"migrate"}))

M72 ==
    Migration("72", Together(Rekinds("stack_config_files", "stack", "stacks", "blocks",
        "cascades"), Rekinds("job_config_files", "job", "scheduled_jobs",
        "blocks", "cascades")),
        Nothing)

M73 ==
    Reversible("73",
        Fields("repository_keys", {"oauth_last_refresh_at",
               "oauth_refresh_error"}))

M74 ==
    Reversible("74",
        Values("stacks", "config_source", {"compose_embedded"}))

M75 ==
    Reversible("75",
              Fields("stacks", {"compose_project_name", "index_project"})
          \cup Fields("workers", {"capabilities"}))

M76 ==
    Reversible("76",
        Fields("workers", {"heavy_concurrency", "active_heavy",
               "queued_heavy"}))

M77 ==
    Reversible("77",
        Fields("stacks", {"last_error_commit"}))

M78 ==
    Reversible("78",
        Select("stacks", "last_error_reason", {"timeout", "dispatch",
               "compose"}))

M79 ==
    Reversible("79",
        Fields("registry_credentials", {"registry_host", "index_host"}))

Migrations ==
    <<M01, M03, M04, M05, M06a, M06b, M07, M08, M09, M10, M11, M12, M13, M14,
      M15, M16, M17, M18, M19, M20, M21, M22, M23, M24, M25, M26, M27, M28,
      M29, M30, M31, M32, M33, M34, M35, M36, M37, M38, M39, M40, M41, M42,
      M43, M44, M45h, M45w, M46, M47, M48, M49, M50, M52, M53, M54, M55, M56,
      M57, M58, M59, M60, M61, M62, M63, M64, M65, M66, M67, M68, M69, M70,
      M71, M72, M73, M74, M75, M76, M77, M78, M79>>

Version38 == CHOOSE k \in DOMAIN Migrations : Migrations[k].name = "38"

-----------------------------------------------------------------------------
(* Applying one direction of a migration, in a transaction. *)

\* Removing a collection or a field removes all that hangs off it.
Covers(p, x) == Len(p) <= Len(x) /\ SubSeq(x, 1, Len(p)) = p

\* PocketBase refuses to delete a collection another one relates to.
DeleteCollection(s, c) ==
    IF \E x \in s : Len(x) = 4 /\ x[4] = c /\ x[1] # c
    THEN s
    ELSE {x \in s : x[1] # c}

AfterDrops(ch, s) ==
    {x \in s : /\ \A p \in ch.drops : ~Covers(p, x)
              /\ ~(Len(x) = 3 /\ <<x[1], x[2]>> \in ch.relists)}

AfterDeletes(ch, s) == FoldLeft(DeleteCollection, AfterDrops(ch, s), ch.deletes)

Succeeds(ch, s) ==
    /\ ch.needs \subseteq s
    /\ \A c \in ch.absent : <<c>> \notin s
    /\ \/ ch.forgiving
       \/ \A c \in Range(ch.deletes) : <<c>> \notin AfterDeletes(ch, s)

\* Values and fields are only added where the field and the collection exist.
Result(ch, s) ==
    LET kept == AfterDeletes(ch, s)
        all  == kept \cup ch.adds
    IN  kept \cup {x \in ch.adds : <<x[1]>> \in all /\ (Len(x) >= 3 => <<x[1], x[2]>> \in all)}

\* The collection users that PocketBase creates before the first migration.
PocketBaseDefaults == Collection("users", {"name", "avatar"})

-----------------------------------------------------------------------------
(* The server applies what is missing when it starts; an operator rolls    *)
(* back with "migrate down".                                               *)

SchemaInit ==
    /\ schema = PocketBaseDefaults
    /\ applied = 0
    /\ lowest = Len(Migrations)
    /\ failing = FALSE

Attempt(ch, number) ==
    \/ /\ Succeeds(ch, schema)
       /\ schema' = Result(ch, schema)
       /\ applied' = number
       /\ failing' = FALSE
    \/ /\ ~Succeeds(ch, schema)
       /\ failing' = TRUE
       /\ UNCHANGED <<schema, applied>>

MigrateUp ==
    /\ applied < Len(Migrations)
    /\ Attempt(Migrations[applied + 1].up, applied + 1)
    /\ UNCHANGED lowest

MigrateDown ==
    /\ applied > 0
    /\ Attempt(Migrations[applied].down, applied - 1)
    /\ lowest' = IF applied' < lowest THEN applied' ELSE lowest

SchemaNext == MigrateUp \/ MigrateDown

SchemaSpec == SchemaInit /\ [][SchemaNext]_schemaVars

-----------------------------------------------------------------------------
(* What the server writes into fields that list their values, and what its *)
(* deletions take care of before the record itself is deleted.             *)

\* The trigger a reconcile is started with, and what the log of an operation
\* that is not a reconcile says.
ReconcileTriggers == {"cron", "webhook", "manual", "migrate"}
LogTriggers == ReconcileTriggers \cup {"redeploy", "transfer", "queue"}

DeployPhases ==
    {"git_fetch", "lint", "render", "secrets_fetch", "policy_check", "dispatch",
     "worker_ack", "compose_up", "post_check", "notify"}

Actors == {"anonymous", "agent", "system", "user", "worker"}
Origins == {"api", "api_key", "setup", "system", "ui", "webhook", "worker"}

Written ==
    UNION {Values("sync_logs", "trigger", LogTriggers),
           Values("sync_logs", "status", {"running", "success", "error", "queued",
                  "noop", "degraded", "waiting_jobs"}),
           Values("stacks", "status", {"active", "syncing", "paused", "error",
                  "pending", "degraded"}),
           Values("stacks", "last_error_reason", {"timeout", "dispatch", "compose"}),
           Values("sync_log_phases", "phase", DeployPhases),
           Values("sync_log_phases", "status", {"running", "success", "error", "skipped"}),
           Values("job_runs", "status", {"pending", "running", "success", "error",
                  "stalled", "forgotten"}),
           Values("worker_commands", "status", {"queued", "dispatched", "acked",
                  "success", "error", "timed_out", "cancelled"}),
           Values("audit_logs", "actor_type", Actors),
           Values("audit_logs", "origin", Origins)}

\* Collections the code empties of the record's rows, or refuses to delete the
\* record for, before it deletes a record of each collection.
StackChildren ==
    {"sync_logs", "stack_services", "stack_env_vars", "stack_global_env_vars",
     "stack_revisions", "stack_pending_reconciles"}
JobChildren == {"job_runs", "job_env_vars", "job_global_env_vars"}
RepositoryUsers == {"stacks", "scheduled_jobs"}
GlobalEnvVarUsers == {"stack_global_env_vars", "job_global_env_vars"}

HandledFirst ==
    [stacks |-> StackChildren, scheduled_jobs |-> JobChildren,
     repositories |-> RepositoryUsers, global_env_vars |-> GlobalEnvVarUsers,
     repository_keys |-> {"repositories"}, sync_logs |-> {},
     registry_credentials |-> {}, users |-> {}]

UpToDate == applied = Len(Migrations)

-----------------------------------------------------------------------------
(* Properties. *)

\* Facts only speak of collections and fields that exist, and the counters
\* stay within the list of migrations.
SchemaTypeOK ==
    /\ applied \in 0 .. Len(Migrations) /\ lowest \in 0 .. Len(Migrations)
    /\ failing \in BOOLEAN
    /\ \A x \in schema : /\ <<x[1]>> \in schema
                         /\ Len(x) >= 3 => <<x[1], x[2]>> \in schema
                         /\ Len(x) = 4 => <<x[4]>> \in schema

\* A database that is upgraded, and rolled back no further than migration 38
\* (whose rollback keeps the new shape of repository_keys), finds at every
\* migration what that migration needs: neither Up nor Down ever fails.
MigrationsApply == failing => lowest < Version38

\* From migration 38 on, rolling a migration back right after it was applied
\* leads to the schema it started from: every Down undoes exactly its Up, so
\* that rollbacks and upgrades in any order never drift from the version.
RollbackRestores ==
    applied' > applied /\ Version38 <= applied /\ Version38 <= lowest
      => LET down == Migrations[applied'].down
         IN  Succeeds(down, schema') /\ Result(down, schema') = schema

\* Once every migration is applied, each value the server writes into a field
\* with a list of values (log triggers and statuses, phases, command and run
\* statuses, audit actors) is on that list, so that the save is not rejected.
WrittenValuesAccepted == UpToDate => Written \subseteq schema

\* Once every migration is applied, a record the code deletes is not held by a
\* required relation from rows the code neither removes first nor checks for:
\* the rest either cascades or is cleared.
DeletionsAreNotBlocked ==
    UpToDate => \A x \in schema :
        (Len(x) = 4 /\ x[3] = "blocks" /\ x[4] \in DOMAIN HandledFirst)
            => x[1] \in HandledFirst[x[4]]

\* The migrations apply, undo each other, and lead to a schema that accepts what
\* the code writes and deletes.
SchemaSafety ==
  [][/\ SchemaTypeOK' /\ MigrationsApply' /\ RollbackRestores
     /\ WrittenValuesAccepted' /\ DeletionsAreNotBlocked']_schemaVars
=============================================================================
