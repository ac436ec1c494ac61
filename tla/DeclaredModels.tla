--------------------------- MODULE DeclaredModels ---------------------------
(***************************************************************************)
(* The tables the ORM of db/models.py declares, in the terms of Ddl: what  *)
(* the code at the head revision takes the database to be.                 *)
(***************************************************************************)
EXTENDS Revisions

Model(columns, refs, keys) == [columns |-> columns, refs |-> refs, keys |-> keys]

ItemModels ==
  [items        |-> Model(ItemColumns, {Nullify("harvest_profile_id", "harvest_profiles")},
                          {{"arxiv_id"}, {"doi"}, {"normalized_title"}}),
   item_sources |-> Model({}, {Cascade("item_id", "items")}, {{"source", "external_id"}}),
   authors      |-> Model({}, {}, {{"normalized_name"}, {"orcid"}}),
   item_authors |-> Model({}, {Cascade("item_id", "items"), Cascade("author_id", "authors")},
                          {{"item_id", "author_id"}, {"item_id", "position"}})]

LinkedModels ==
  [topics            |-> Model({}, {}, {{"normalized_name"}}),
   item_topics       |-> Model({}, {Cascade("item_id", "items"), Cascade("topic_id", "topics")},
                               {{"item_id", "topic_id"}}),
   repositories      |-> Model({}, {}, {{"url"}}),
   item_repositories |-> Model({}, {Cascade("item_id", "items"),
                                    Cascade("repository_id", "repositories")},
                               {{"item_id", "repository_id"}}),
   datasets          |-> Model({}, {}, {{"url"}}),
   item_datasets     |-> Model({}, {Cascade("item_id", "items"),
                                    Cascade("dataset_id", "datasets")},
                               {{"item_id", "dataset_id"}})]

ReaderModels ==
  [subscribers |->
     Model({"telegram_chat_id", "telegram_username", "title", "language_code", "status",
            "last_seen_at", "updated_at", "kind", "telegram_user_id", "is_owner",
            "added_by_subscriber_id", "timezone", "notes", "meta", "first_seen_at"},
           {Nullify("added_by_subscriber_id", "subscribers")}, {{"telegram_chat_id"}}),
   subscriber_profiles |->
     Model({"subscriber_id", "description_en", "translation_source_hash", "schedule_id",
            "timezone", "delivery_format", "max_items", "min_personal_score",
            "min_global_score", "kinds", "quiet_hours", "last_digest_at", "next_digest_at",
            "paused_until"},
           {Cascade("subscriber_id", "subscribers"), Nullify("schedule_id", "schedules")},
           {{"subscriber_id", "normalized_name"}, {"subscriber_id", "where active"}})]

InterestModels ==
  [profile_interests |->
     Model({}, {Cascade("profile_id", "subscriber_profiles"), Cascade("topic_id", "topics")},
           {{"profile_id", "topic_id"}, {"profile_id", "query"}}),
   profile_interest_signals |->
     Model({}, {Cascade("profile_id", "subscriber_profiles"), Cascade("topic_id", "topics"),
                Nullify("source_feedback_id", "feedback")},
           {{"profile_id", "topic_id"}, {"profile_id", "query"}}),
   profile_item_scores |->
     Model({"matched_facet"},
           {Cascade("profile_id", "subscriber_profiles"), Cascade("item_id", "items")},
           {{"profile_id", "item_id", "profile_version"}})]

DigestModels ==
  [feedback |->
     Model({"subscriber_id", "profile_id"},
           {Cascade("subscriber_id", "subscribers"), Cascade("item_id", "items"),
            Nullify("profile_id", "subscriber_profiles")}, {}),
   digests |->
     Model({"subscriber_id", "profile_id"} \union DigestColumns,
           {Cascade("subscriber_id", "subscribers"), Nullify("schedule_id", "schedules"),
            Nullify("profile_id", "subscriber_profiles")}, {}),
   digest_items |->
     Model(DigestItemColumns,
           {Cascade("digest_id", "digests"), Cascade("item_id", "items"),
            Nullify("profile_score_id", "profile_item_scores")},
           {{"digest_id", "item_id"}, {"digest_id", "position"}})]

HarvestProfileModels ==
  [harvest_profiles    |-> Model({}, {}, {{"key"}, {"where active"}}),
   harvest_term_groups |-> Model({}, {Cascade("harvest_profile_id", "harvest_profiles")},
                                 {{"harvest_profile_id", "key"}}),
   harvest_terms       |-> Model({}, {Cascade("group_id", "harvest_term_groups")},
                                 {{"group_id", "normalized_term", "match_type"}})]

HarvestRunModels ==
  [harvest_queries   |-> Model({}, {Cascade("harvest_profile_id", "harvest_profiles")},
                               {{"harvest_profile_id", "source", "key"}}),
   source_cursors    |-> Model({}, {Cascade("harvest_query_id", "harvest_queries")},
                               {{"harvest_query_id"}}),
   harvest_runs      |-> Model({"until"}, {Nullify("harvest_profile_id", "harvest_profiles")},
                               {{"where running"}}),
   harvest_decisions |-> Model({}, {Cascade("harvest_run_id", "harvest_runs"),
                                    Nullify("item_id", "items")}, {})]

SubscriptionModels ==
  [subscription_plans  |-> Model({}, {}, {{"key"}, {"where default"}}),
   subscriptions       |-> Model({}, {Cascade("subscriber_id", "subscribers"),
                                      Forbid("plan_id", "subscription_plans")}, {}),
   subscription_events |-> Model({}, {Cascade("subscription_id", "subscriptions")}, {})]

ChatAndFlowModels ==
  [chat_memberships |-> Model({}, {Cascade("subscriber_id", "subscribers")},
                              {{"subscriber_id"}}),
   chat_events      |-> Model({}, {Cascade("subscriber_id", "subscribers")}, {}),
   schedules        |-> Model({}, {Cascade("subscriber_profile_id", "subscriber_profiles")},
                              {{"key"}}),
   flow_runs        |-> Model({}, {Nullify("schedule_id", "schedules"),
                                   Nullify("subscriber_id", "subscribers")},
                              {{"prefect_flow_run_id"}})]

DeliveryModels ==
  [delivery_jobs     |-> Model({}, {Cascade("digest_id", "digests"),
                                    Cascade("subscriber_id", "subscribers")},
                               {{"digest_id", "target_chat_id"}}),
   delivery_messages |-> Model({}, {Cascade("delivery_job_id", "delivery_jobs"),
                                    Nullify("item_id", "items")}, {})]

LlmModels ==
  [llm_providers     |-> Model({}, {}, {{"key"}}),
   llm_models        |-> Model({}, {Cascade("provider_id", "llm_providers")},
                               {{"provider_id", "key"}}),
   llm_role_bindings |-> Model({}, {Forbid("model_id", "llm_models"),
                                    Nullify("fallback_model_id", "llm_models")}, {{"role"}})]

UsageAndAuditModels ==
  [llm_call_log    |-> Model({}, {Nullify("model_id", "llm_models"),
                                  Nullify("item_id", "items"),
                                  Nullify("subscriber_id", "subscribers")}, {}),
   llm_usage_daily |-> Model({}, {Nullify("model_id", "llm_models")},
                             {{"day", "role", "model_id"}}),
   app_settings    |-> Model({}, {}, {{"key"}}),
   admin_audit_log |-> Model({}, {}, {})]

ActivityModel ==
  [subscriber_activity |->
     Model({}, {Cascade("subscriber_id", "subscribers"), Nullify("item_id", "items"),
                Nullify("profile_id", "subscriber_profiles"),
                Nullify("digest_id", "digests")}, {})]

MetricsModels ==
  [metrics_harvest_daily     |-> Model({}, {}, {{"day", "source"}}),
   metrics_subscribers_daily |-> Model({}, {}, {{"day", "kind"}}),
   metrics_delivery_daily    |-> Model({}, {}, {{"day", "channel"}}),
   metrics_engagement_daily  |-> Model({}, {}, {{"day"}})]

RetentionModels ==
  [metrics_retention   |-> Model({}, {}, {{"cohort_week", "week_offset", "kind"}}),
   metrics_rollup_runs |-> Model({}, {}, {})]

VectorModels ==
  [item_vectors    |-> Model({}, {Cascade("item_id", "items")}, {{"item_id"}}),
   profile_vectors |-> Model({"facet", "text_hash"},
                             {Cascade("profile_id", "subscriber_profiles")},
                             {{"profile_id", "version", "facet"}})]

Declared ==
  FoldSet(LAMBDA models, all : models @@ all, <<>>,
          {ItemModels, LinkedModels, ReaderModels, InterestModels, DigestModels,
           HarvestProfileModels, HarvestRunModels, SubscriptionModels, ChatAndFlowModels,
           DeliveryModels, LlmModels, UsageAndAuditModels, ActivityModel, MetricsModels,
           RetentionModels, VectorModels})

DeclaredStatuses ==
  {[on |-> "subscribers", column |-> "status",
    allowed |-> {"pending", "active", "paused", "blocked", "left"}],
   [on |-> "digests", column |-> "status",
    allowed |-> {"pending", "building", "ready", "queued", "sent", "partial", "failed",
                 "skipped"}]}

=============================================================================
