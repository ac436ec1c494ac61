------------------------------ MODULE Registry ------------------------------
(***************************************************************************)
(* The rows without which the platform does not work: what bootstrap/      *)
(* seed.py puts in on every start, what an administrator changes in them,  *)
(* and what revision 0008 rewrites.  One language model role stands for    *)
(* the eight, one setting for those of SETTINGS_IN_DB, and of the nine     *)
(* schedules the two kinds that 0008 treats differently.  "mine" is a      *)
(* value only an administrator writes.                                     *)
(*                                                                         *)
(* An environment is [plan, profile, file, fileKey, terms, model, value,   *)
(* cron, hour, vectors]: what .env, config/harvest.yaml and the code of    *)
(* the image give; `file' says whether HARVEST_CONFIG_PATH is a file with  *)
(* a profile in it, `vectors' is what revision 0005 asks of the database.  *)
(***************************************************************************)
EXTENDS Naturals, FiniteSets

Chats    == "digest-dispatch-chats"
Personal == "digest-dispatch"
None     == "none"

NoRows ==
  [plans    |-> {},      \* [key, isDefault]
   profiles |-> {},      \* [key, isActive]
   terms    |-> {},      \* [text, match, weight] of the one group
   models   |-> {},
   role     |-> None,    \* the model the role is bound to
   schedules |-> {},     \* [key, cron, enabled, hour], and who set `enabled' (history): byHand
   setting  |-> [value |-> None, default |-> None, by |-> None],
   refused  |-> FALSE]

Refuse(reg) == [reg EXCEPT !.refused = TRUE]

(***************************************************************************)
(* seed_all: a conflict the statement does not name (the unique default    *)
(* plan, the unique active profile) fails the whole transaction.           *)
(***************************************************************************)
_seed_plans(reg, env) ==
  IF \E p \in reg.plans : p.key = env.plan THEN reg
  ELSE IF \E p \in reg.plans : p.isDefault THEN Refuse(reg)
  ELSE [reg EXCEPT !.plans = @ \union {[key |-> env.plan, isDefault |-> TRUE]}]

\* The profile is looked for by HARVEST_PROFILE_KEY and inserted under the key of the file.
_seed_harvest_profile(reg, env) ==
  IF \E p \in reg.profiles : p.key = env.profile THEN reg
  ELSE IF ~env.file THEN Refuse(reg)
  ELSE IF \E p \in reg.profiles : p.isActive \/ p.key = env.fileKey THEN Refuse(reg)
  ELSE [reg EXCEPT !.profiles = @ \union {[key |-> env.fileKey, isActive |-> TRUE]},
                   !.terms = {[text |-> t.text, match |-> t.match, weight |-> "file"] :
                                t \in env.terms}]

_seed_llm_registry(reg, env) ==
  [reg EXCEPT !.models = @ \union {env.model},
              !.role = IF @ = None THEN env.model ELSE @]

_seed_schedules(reg, env) ==
  LET missing == {Chats, Personal} \ {s.key : s \in reg.schedules} IN
  [reg EXCEPT !.schedules = @ \union
     {[key     |-> k,
       cron    |-> IF k = Personal THEN "same" ELSE env.cron,
       enabled |-> k # Personal,
       hour    |-> IF k = Personal THEN None ELSE env.hour,
       byHand  |-> FALSE] : k \in missing}]

\* ON CONFLICT renews the default only, and only while nobody has overridden the value.
_seed_settings(reg, env) ==
  IF reg.setting.by = None
  THEN [reg EXCEPT !.setting = [value |-> env.value, default |-> env.value, by |-> "seed"]]
  ELSE IF reg.setting.by = "seed" THEN [reg EXCEPT !.setting.default = env.value]
  ELSE reg

seed_all(reg, env) ==
  _seed_settings(
    _seed_schedules(
      _seed_llm_registry(_seed_harvest_profile(_seed_plans(reg, env), env), env), env), env)

(***************************************************************************)
(* sync_harvest_profile: the file is the truth, but a term leaves only     *)
(* when its text is gone from the file, whatever its match type.           *)
(***************************************************************************)
sync_harvest_profile(reg, env) ==
  IF \/ ~env.file
     \/ /\ ~\E p \in reg.profiles : p.key = env.fileKey
        /\ \E p \in reg.profiles : p.isActive
  THEN Refuse(reg)
  ELSE LET upserted == {[text |-> t.text, match |-> t.match, weight |-> "file"] :
                          t \in env.terms}
           kept == {t \in reg.terms :
                      /\ \E u \in env.terms : u.text = t.text
                      /\ ~\E u \in env.terms : u.text = t.text /\ u.match = t.match}
       IN [reg EXCEPT !.terms = upserted \union kept,
                      !.profiles = IF \E p \in @ : p.key = env.fileKey THEN @
                                   ELSE @ \union {[key |-> env.fileKey, isActive |-> TRUE]}]

(***************************************************************************)
(* What an administrator changes.  A plan made by hand is not the default. *)
(***************************************************************************)
create_plan(reg, key) ==
  IF \E p \in reg.plans : p.key = key THEN reg
  ELSE [reg EXCEPT !.plans = @ \union {[key |-> key, isDefault |-> FALSE]}]

create_model(reg) == [reg EXCEPT !.models = @ \union {"mine"}]

bind_role(reg, model) == IF model \in reg.models THEN [reg EXCEPT !.role = model] ELSE reg

set_setting(reg) ==
  IF reg.setting.by = None THEN reg
  ELSE [reg EXCEPT !.setting.value = "mine", !.setting.by = "admin"]

reset_setting(reg) ==
  IF reg.setting.by = None THEN reg
  ELSE [reg EXCEPT !.setting.value = reg.setting.default, !.setting.by = "seed"]

patch_term(reg, t) == [reg EXCEPT !.terms = (@ \ {t}) \union {[t EXCEPT !.weight = "mine"]}]

delete_term(reg, t) == [reg EXCEPT !.terms = @ \ {t}]

EditSchedule(reg, s) ==
  {[reg EXCEPT !.schedules = (@ \ {s}) \union {u}] :
     u \in {[s EXCEPT !.cron = "mine"], [s EXCEPT !.hour = "mine"]}
             \union {[s EXCEPT !.enabled = on, !.byHand = TRUE] : on \in BOOLEAN}}

\* Every state one request of the admin API may leave.
Edited(reg) ==
  {create_plan(reg, "pro"), create_model(reg), set_setting(reg), reset_setting(reg)}
    \union {bind_role(reg, m) : m \in reg.models}
    \union {patch_term(reg, t) : t \in reg.terms}
    \union {delete_term(reg, t) : t \in reg.terms}
    \union UNION {EditSchedule(reg, s) : s \in reg.schedules}

Switches(rows) == {<<"enabled", s.key, s.enabled>> : s \in {u \in rows : u.byHand}}

\* What an administrator has set, wherever it is.
Mine(reg) ==
  {<<"role", "mine">> : r \in {reg.role} \intersect {"mine"}}
    \union {<<"setting", "mine">> : v \in {reg.setting.value} \intersect {"mine"}}
    \union {<<"term", t.text, t.match>> : t \in {u \in reg.terms : u.weight = "mine"}}
    \union {<<"cron", s.key>> : s \in {u \in reg.schedules : u.cron = "mine"}}
    \union {<<"hour", s.key>> : s \in {u \in reg.schedules : u.hour = "mine"}}
    \union Switches(reg.schedules)
    \union {<<"plan", p.key>> : p \in {u \in reg.plans : ~u.isDefault}}

(***************************************************************************)
(* Revision 0008: where the old default of the time still stands, a new    *)
(* time and a new state of the switch, whoever set the switch before; and  *)
(* an hour of delivery where none is set.                                  *)
(***************************************************************************)
AtOldTime(s) == <<s.key, s.cron>> \in {<<Chats, "old">>, <<Personal, "same">>}

Switched(s, on) == [s EXCEPT !.enabled = on, !.byHand = @ /\ s.enabled = on]

WithHour(s) == [s EXCEPT !.hour = IF s.key = Chats /\ @ = None THEN "16" ELSE @]

SlipNewTime(s) ==
  IF s.key = Chats THEN Switched(WithHour([s EXCEPT !.cron = "new"]), TRUE)
  ELSE Switched(s, FALSE)

NewTime(s) ==
  IF ~AtOldTime(s) THEN WithHour(s)
  ELSE IF s.key = Chats THEN Switched(WithHour([s EXCEPT !.cron = "new"]), TRUE)
  ELSE Switched(s, FALSE)

Reschedule(reg) == [reg EXCEPT !.schedules = {NewTime(s) : s \in @}]

OldTime(s) ==
  IF s.key # Chats THEN s
  ELSE IF s.cron # "new" THEN [s EXCEPT !.hour = None]
  ELSE Switched([s EXCEPT !.hour = None, !.cron = "old"], TRUE)

Unschedule(reg) == [reg EXCEPT !.schedules = {OldTime(s) : s \in @}]

\* The switches that revision 0008 sets over an administrator's.
Overruled(reg) == Switches({s \in reg.schedules : AtOldTime(s)})

=============================================================================
