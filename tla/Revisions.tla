------------------------------ MODULE Revisions -----------------------------
(***************************************************************************)
(* migrations/versions/0001 .. 0009, each as the statements of its         *)
(* upgrade() and downgrade().  See Ddl for what is kept of a table.        *)
(***************************************************************************)
EXTENDS Ddl

HeadRevision == 9

OldSources == {"arxiv", "openalex", "crossref", "semantic_scholar", "github", "huggingface"}
NewSources == {"cyberleninka", "oai"}

(***************************************************************************)
(* 0001: the corpus, its users, digests and feedback.                      *)
(***************************************************************************)
CorpusTables ==
  << CreateTable("items", {}, {}, {{"arxiv_id"}, {"doi"}, {"normalized_title"}}),
     CreateTable("authors", {}, {}, {{"normalized_name"}, {"orcid"}}),
     CreateTable("topics", {}, {}, {{"normalized_name"}}),
     CreateTable("repositories", {}, {}, {{"url"}}),
     AddDoubledCheck("repositories", "source", OldSources),
     CreateTable("datasets", {}, {}, {{"url"}}),
     AddDoubledCheck("datasets", "source", OldSources),
     CreateTable("users", {"external_user_id"}, {}, {{"external_user_id"}}) >>

SourceTables ==
  << CreateTable("collection_runs", {}, {}, {{"source", "where running"}}),
     CreateTable("item_sources", {}, {Cascade("item_id", "items")},
                 {{"source", "external_id"}}),
     AddDoubledCheck("item_sources", "source", OldSources) >>

LinkTables ==
  << CreateTable("item_authors", {},
                 {Cascade("author_id", "authors"), Cascade("item_id", "items")},
                 {{"item_id", "author_id"}, {"item_id", "position"}}),
     CreateTable("item_topics", {},
                 {Cascade("item_id", "items"), Cascade("topic_id", "topics")},
                 {{"item_id", "topic_id"}}),
     CreateTable("item_repositories", {},
                 {Cascade("item_id", "items"), Cascade("repository_id", "repositories")},
                 {{"item_id", "repository_id"}}),
     CreateTable("item_datasets", {},
                 {Cascade("dataset_id", "datasets"), Cascade("item_id", "items")},
                 {{"item_id", "dataset_id"}}) >>

UserInterests ==
  CreateTable("user_interests", {},
              {Cascade("topic_id", "topics"), Cascade("user_id", "users")},
              {{"user_id", "query"}, {"user_id", "topic_id"}})

UserTables ==
  << UserInterests,
     CreateTable("feedback", {"user_id"},
                 {Cascade("item_id", "items"), Cascade("user_id", "users")}, {}),
     CreateTable("digests", {"user_id"}, {Cascade("user_id", "users")}, {}),
     AddDoubledCheck("digests", "status", {"pending", "building", "ready", "sent", "failed"}),
     CreateTable("digest_items", {},
                 {Cascade("digest_id", "digests"), Cascade("item_id", "items")},
                 {{"digest_id", "item_id"}, {"digest_id", "position"}}) >>

Upgrade0001 == CorpusTables \o SourceTables \o LinkTables \o UserTables

DropTables(names) == [i \in 1 .. Len(names) |-> DropTable(names[i])]

Downgrade0001 ==
  DropTables(<<"digest_items", "digests", "feedback", "user_interests", "item_datasets",
               "item_repositories", "item_topics", "item_authors", "item_sources",
               "collection_runs", "users", "datasets", "repositories", "topics",
               "authors", "items">>)

(***************************************************************************)
(* 0002: profiles, and what belonged to a user moves to the active one.    *)
(***************************************************************************)
UserStatus ==
  << AddColumns("users", {"telegram_username", "display_name", "language_code", "status",
                          "last_seen_at", "updated_at"}),
     AddCheck("users", "status", {"active", "inactive", "blocked"}) >>

ProfileTable ==
  << CreateTable("user_profiles", {"user_id"}, {Cascade("user_id", "users")},
                 {{"user_id", "normalized_name"}, {"user_id", "where active"}}) >>

\* Every interest of a user is a positive one of the profile the revision gives him.
ProfileInterestTable ==
  << CreateTable("profile_interests", {},
                 {Cascade("profile_id", "user_profiles"), Cascade("topic_id", "topics")},
                 {{"profile_id", "query"}, {"profile_id", "topic_id"}}),
     CopyRows("profile_interests", "user_interests", "polarity", {"positive"}) >>

ProfileScoreTable ==
  << CreateTable("profile_item_scores", {},
                 {Cascade("item_id", "items"), Cascade("profile_id", "user_profiles")},
                 {{"profile_id", "item_id", "profile_version"}}) >>

SlipProfileOf(t) ==
  << AddColumns(t, {"profile_id"}),
     AddForeignKey(t, Cascade("profile_id", "user_profiles")) >>

ProfileOf(t) ==
  << AddColumns(t, {"profile_id"}),
     AddForeignKey(t, Nullify("profile_id", "user_profiles")) >>

SignalTable ==
  << CreateTable("profile_interest_signals", {},
                 {Cascade("profile_id", "user_profiles"),
                  Nullify("source_feedback_id", "feedback"), Cascade("topic_id", "topics")},
                 {{"profile_id", "query"}, {"profile_id", "topic_id"}}) >>

Upgrade0002 ==
  UserStatus \o ProfileTable \o ProfileInterestTable \o ProfileScoreTable
    \o ProfileOf("feedback") \o ProfileOf("digests") \o SignalTable
    \o <<DropTable("user_interests")>>

Downgrade0002 ==
  << UserInterests,
     CopyRows("user_interests", "profile_interests", "polarity", {"positive"}),
     DropTable("profile_interest_signals"),
     DropForeignKey("digests", "profile_id"),  DropColumns("digests", {"profile_id"}),
     DropForeignKey("feedback", "profile_id"), DropColumns("feedback", {"profile_id"}),
     DropTable("profile_item_scores"), DropTable("profile_interests"),
     DropTable("user_profiles"), DropCheck("users", "users", "status"),
     DropColumns("users", {"updated_at", "last_seen_at", "status", "language_code",
                           "display_name", "telegram_username"}) >>

(***************************************************************************)
(* 0003: users become subscribers, and the whole of platform v2.           *)
(***************************************************************************)
SubscriberColumns ==
  {"kind", "telegram_user_id", "is_owner", "added_by_subscriber_id", "timezone", "notes",
   "meta", "first_seen_at"}

RenameUsersToSubscribers ==
  << RenameTable("users", "subscribers"),
     RenameColumn("subscribers", "external_user_id", "telegram_chat_id"),
     RenameColumn("subscribers", "display_name", "title"),
     AddColumns("subscribers", SubscriberColumns),
     DropCheck("subscribers", "users", "status"),
     Rewrite("subscribers", "status", {"inactive"}, "paused"),
     AddCheck("subscribers", "status", {"pending", "active", "paused", "blocked", "left"}),
     AddForeignKey("subscribers", Nullify("added_by_subscriber_id", "subscribers")) >>

ProfileColumns ==
  {"schedule_id", "timezone", "delivery_format", "max_items", "min_personal_score",
   "min_global_score", "kinds", "quiet_hours", "last_digest_at", "next_digest_at",
   "paused_until"}

RenameProfiles ==
  << RenameTable("user_profiles", "subscriber_profiles"),
     RenameColumn("subscriber_profiles", "user_id", "subscriber_id"),
     AddColumns("subscriber_profiles", ProfileColumns),
     RenameColumn("digests", "user_id", "subscriber_id"),
     RenameColumn("feedback", "user_id", "subscriber_id") >>

ItemColumns ==
  {"keyword_score", "matched_terms", "harvest_profile_id", "gate_stage", "language",
   "is_preprint", "retracted_at", "content_hash"}

ExtendItems == << AddColumns("items", ItemColumns) >>

CreateHarvest ==
  << CreateTable("harvest_profiles", {}, {}, {{"key"}, {"where active"}}),
     AddForeignKey("items", Nullify("harvest_profile_id", "harvest_profiles")),
     CreateTable("harvest_term_groups", {},
                 {Cascade("harvest_profile_id", "harvest_profiles")},
                 {{"harvest_profile_id", "key"}}),
     CreateTable("harvest_terms", {}, {Cascade("group_id", "harvest_term_groups")},
                 {{"group_id", "normalized_term", "match_type"}}),
     CreateTable("harvest_queries", {}, {Cascade("harvest_profile_id", "harvest_profiles")},
                 {{"harvest_profile_id", "source", "key"}}),
     AddCheck("harvest_queries", "source", OldSources) >>

CreateHarvestRuns ==
  << CreateTable("source_cursors", {}, {Cascade("harvest_query_id", "harvest_queries")},
                 {{"harvest_query_id"}}),
     CreateTable("harvest_runs", {}, {Nullify("harvest_profile_id", "harvest_profiles")},
                 {{"where running"}}),
     CreateTable("harvest_decisions", {},
                 {Cascade("harvest_run_id", "harvest_runs"), Nullify("item_id", "items")}, {}),
     AddCheck("harvest_decisions", "source", OldSources) >>

CreateSubscriptions ==
  << CreateTable("subscription_plans", {}, {}, {{"key"}, {"where default"}}),
     CreateTable("subscriptions", {},
                 {Forbid("plan_id", "subscription_plans"),
                  Cascade("subscriber_id", "subscribers")}, {}),
     CreateTable("subscription_events", {}, {Cascade("subscription_id", "subscriptions")}, {}) >>

CreateChats ==
  << CreateTable("chat_memberships", {}, {Cascade("subscriber_id", "subscribers")},
                 {{"subscriber_id"}}),
     CreateTable("chat_events", {}, {Cascade("subscriber_id", "subscribers")}, {}) >>

CreateSchedulesAndRuns ==
  << CreateTable("schedules", {}, {Cascade("subscriber_profile_id", "subscriber_profiles")},
                 {{"key"}}),
     AddForeignKey("subscriber_profiles", Nullify("schedule_id", "schedules")),
     CreateTable("flow_runs", {},
                 {Nullify("schedule_id", "schedules"), Nullify("subscriber_id", "subscribers")},
                 {{"prefect_flow_run_id"}}) >>

DigestColumns == {"kind", "schedule_id", "prefect_flow_run_id", "item_count", "error"}

DigestItemColumns == {"personal_score", "global_score", "profile_score_id"}

CreateDelivery ==
  << AddColumns("digests", DigestColumns),
     AddForeignKey("digests", Nullify("schedule_id", "schedules")),
     DropCheck("digests", "digests", "status"),
     AddCheck("digests", "status",
              {"pending", "building", "ready", "queued", "sent", "partial", "failed",
               "skipped"}),
     AddColumns("digest_items", DigestItemColumns),
     AddForeignKey("digest_items", Nullify("profile_score_id", "profile_item_scores")),
     CreateTable("delivery_jobs", {},
                 {Cascade("digest_id", "digests"), Cascade("subscriber_id", "subscribers")},
                 {{"digest_id", "target_chat_id"}}),
     CreateTable("delivery_messages", {},
                 {Cascade("delivery_job_id", "delivery_jobs"), Nullify("item_id", "items")},
                 {}) >>

CreateLlmRegistry ==
  << CreateTable("llm_providers", {}, {}, {{"key"}}),
     CreateTable("llm_models", {}, {Cascade("provider_id", "llm_providers")},
                 {{"provider_id", "key"}}),
     CreateTable("llm_role_bindings", {},
                 {Nullify("fallback_model_id", "llm_models"), Forbid("model_id", "llm_models")},
                 {{"role"}}),
     CreateTable("llm_call_log", {},
                 {Nullify("item_id", "items"), Nullify("model_id", "llm_models"),
                  Nullify("subscriber_id", "subscribers")}, {}),
     CreateTable("llm_usage_daily", {}, {Nullify("model_id", "llm_models")},
                 {{"day", "role", "model_id"}}) >>

CreateSettingsAndAudit ==
  << CreateTable("app_settings", {}, {}, {{"key"}}),
     CreateTable("admin_audit_log", {}, {}, {}) >>

Upgrade0003 ==
  <<UndoubleNames>> \o RenameUsersToSubscribers \o RenameProfiles \o ExtendItems
    \o CreateHarvest \o CreateHarvestRuns \o CreateSubscriptions \o CreateChats
    \o CreateSchedulesAndRuns \o CreateDelivery \o CreateLlmRegistry
    \o CreateSettingsAndAudit \o <<DropTable("collection_runs")>>

(***************************************************************************)
(* 0003 undone.  The digests' CHECK comes back narrower, and unlike the    *)
(* statuses of people theirs are not rewritten first.                      *)
(***************************************************************************)
DropPlatformTables ==
  DropTables(<<"admin_audit_log", "app_settings", "llm_usage_daily", "llm_call_log",
               "llm_role_bindings", "llm_models", "llm_providers", "delivery_messages",
               "delivery_jobs", "chat_events", "chat_memberships", "subscription_events",
               "subscriptions", "subscription_plans", "harvest_decisions", "harvest_runs",
               "source_cursors", "harvest_queries", "harvest_terms", "harvest_term_groups">>)

UndoDelivery ==
  << DropForeignKey("digest_items", "profile_score_id"),
     DropColumns("digest_items", DigestItemColumns),
     DropForeignKey("digests", "schedule_id"),
     DropCheck("digests", "digests", "status"),
     AddCheck("digests", "status", {"pending", "building", "ready", "sent", "failed"}),
     DropColumns("digests", DigestColumns) >>

UndoSchedulesAndItems ==
  << DropForeignKey("subscriber_profiles", "schedule_id"),
     DropTable("flow_runs"), DropTable("schedules"),
     DropForeignKey("items", "harvest_profile_id"), DropTable("harvest_profiles"),
     DropColumns("items", ItemColumns) >>

UndoProfiles ==
  << RenameColumn("digests", "subscriber_id", "user_id"),
     RenameColumn("feedback", "subscriber_id", "user_id"),
     DropColumns("subscriber_profiles", ProfileColumns),
     RenameColumn("subscriber_profiles", "subscriber_id", "user_id"),
     RenameTable("subscriber_profiles", "user_profiles") >>

UndoSubscribers ==
  << DropForeignKey("subscribers", "added_by_subscriber_id"),
     DropCheck("subscribers", "subscribers", "status"),
     Rewrite("subscribers", "status", {"paused", "pending", "left"}, "inactive"),
     DropColumns("subscribers", SubscriberColumns),
     RenameColumn("subscribers", "title", "display_name"),
     RenameColumn("subscribers", "telegram_chat_id", "external_user_id"),
     RenameTable("subscribers", "users"),
     AddCheck("users", "status", {"active", "inactive", "blocked"}),
     CreateTable("collection_runs", {}, {}, {{"source", "where running"}}) >>

Downgrade0003 ==
  DropPlatformTables \o UndoDelivery \o UndoSchedulesAndItems \o UndoProfiles
    \o UndoSubscribers

(***************************************************************************)
(* 0004: activity and the daily aggregates.                                *)
(***************************************************************************)
CreateActivity ==
  << CreateTable("subscriber_activity", {},
                 {Nullify("digest_id", "digests"), Nullify("item_id", "items"),
                  Nullify("profile_id", "subscriber_profiles"),
                  Cascade("subscriber_id", "subscribers")}, {}) >>

CreateDailyRollups ==
  << CreateTable("metrics_harvest_daily", {}, {}, {{"day", "source"}}),
     AddCheck("metrics_harvest_daily", "source", OldSources),
     CreateTable("metrics_subscribers_daily", {}, {}, {{"day", "kind"}}),
     CreateTable("metrics_delivery_daily", {}, {}, {{"day", "channel"}}),
     CreateTable("metrics_engagement_daily", {}, {}, {{"day"}}) >>

CreateRetentionAndRuns ==
  << CreateTable("metrics_retention", {}, {}, {{"cohort_week", "week_offset", "kind"}}),
     CreateTable("metrics_rollup_runs", {}, {}, {}) >>

Upgrade0004 == CreateActivity \o CreateDailyRollups \o CreateRetentionAndRuns

Downgrade0004 ==
  DropTables(<<"metrics_rollup_runs", "metrics_retention", "metrics_engagement_daily",
               "metrics_delivery_daily", "metrics_subscribers_daily", "metrics_harvest_daily",
               "subscriber_activity">>)

(***************************************************************************)
(* 0005 - 0007: vectors in PostgreSQL, one per facet, told by their text.  *)
(***************************************************************************)
\* `vectors' is the column type the settings ask for, or "unindexable" if the index they
\* ask for is too small for the dimensions.
Upgrade0005(vectors) ==
  << Guard(vectors),
     CreateTable("item_vectors", {}, {Cascade("item_id", "items")}, {{"item_id"}}),
     CreateTable("profile_vectors", {}, {Cascade("profile_id", "subscriber_profiles")},
                 {{"profile_id", "version"}}) >>

Downgrade0005 == DropTables(<<"profile_vectors", "item_vectors">>)

Upgrade0006 ==
  << AddColumns("profile_vectors", {"facet"}),
     ReplaceKey("profile_vectors", {"profile_id", "version"},
                {"profile_id", "version", "facet"}, "facet"),
     AddColumns("profile_item_scores", {"matched_facet"}) >>

SlipKeepFacets ==
  << DropColumns("profile_item_scores", {"matched_facet"}),
     ReplaceKey("profile_vectors", {"profile_id", "version", "facet"},
                {"profile_id", "version"}, "facet"),
     DropColumns("profile_vectors", {"facet"}) >>

\* The vectors of the facets go before the key narrows, or the key cannot be made.
Downgrade0006 ==
  << DropColumns("profile_item_scores", {"matched_facet"}),
     DeleteRows("profile_vectors", "facet", {"a facet"}),
     ReplaceKey("profile_vectors", {"profile_id", "version", "facet"},
                {"profile_id", "version"}, "facet"),
     DropColumns("profile_vectors", {"facet"}) >>

Upgrade0007 == << AddColumns("profile_vectors", {"text_hash"}) >>

Downgrade0007 == << DropColumns("profile_vectors", {"text_hash"}) >>

(***************************************************************************)
(* 0008: what a harvest covered.                                           *)
(***************************************************************************)
Upgrade0008 == << AddColumns("harvest_runs", {"until"}) >>

Downgrade0008 == << DropColumns("harvest_runs", {"until"}) >>

(***************************************************************************)
(* 0009: two more sources and the English side of a profile.  A source is  *)
(* optional in repositories and datasets, so there it is forgotten and     *)
(* elsewhere its rows are deleted before the CHECK narrows.                *)
(***************************************************************************)
Rebuild(sources) ==
  << DropCheckIfExists("item_sources", "source"),
     AddCheck("item_sources", "source", sources),
     DropCheckIfExists("repositories", "source"),
     AddCheck("repositories", "source", sources),
     DropCheckIfExists("datasets", "source"),
     AddCheck("datasets", "source", sources),
     DropCheckIfExists("harvest_queries", "source"),
     AddCheck("harvest_queries", "source", sources),
     DropCheckIfExists("harvest_decisions", "source"),
     AddCheck("harvest_decisions", "source", sources),
     DropCheckIfExists("metrics_harvest_daily", "source"),
     AddCheck("metrics_harvest_daily", "source", sources) >>

Upgrade0009 ==
  Rebuild(OldSources \union NewSources)
    \o << AddColumns("subscriber_profiles", {"description_en", "translation_source_hash"}) >>

Downgrade0009 ==
  << DropColumns("subscriber_profiles", {"translation_source_hash", "description_en"}),
     DeleteRows("item_sources", "source", NewSources),
     DeleteRows("harvest_queries", "source", NewSources),
     DeleteRows("harvest_decisions", "source", NewSources),
     DeleteRows("metrics_harvest_daily", "source", NewSources),
     Rewrite("repositories", "source", NewSources, "NULL"),
     Rewrite("datasets", "source", NewSources, "NULL") >> \o Rebuild(OldSources)

Upgrade(vectors) ==
  << Upgrade0001, Upgrade0002, Upgrade0003, Upgrade0004, Upgrade0005(vectors),
     Upgrade0006, Upgrade0007, Upgrade0008, Upgrade0009 >>

Downgrade ==
  << Downgrade0001, Downgrade0002, Downgrade0003, Downgrade0004, Downgrade0005,
     Downgrade0006, Downgrade0007, Downgrade0008, Downgrade0009 >>

=============================================================================
