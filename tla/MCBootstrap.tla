----------------------------- MODULE MCBootstrap ----------------------------
(* Two processes that start from images of different age and settings.      *)
EXTENDS Bootstrap

MCProcesses == {"api", "other"}

MCEnv == [plan |-> "free", profile |-> "geo", fileKey |-> "geo", model |-> "gpt",
          file |-> TRUE, terms |-> {[text |-> "radar", match |-> "phrase"]}, value |-> "v1",
          cron |-> "new", hour |-> "16", vectors |-> "vector"]

\* An older release had the old times; a newer file asks for another kind of match.
MCOldEnv  == [MCEnv EXCEPT !.cron = "old", !.hour = "none"]
MCNextEnv == [MCEnv EXCEPT !.plan = "pro", !.value = "v2", !.vectors = "unindexable",
                           !.terms = {[text |-> "radar", match |-> "regex"]}]

\* A volume that was not mounted, and vectors of half the precision.
MCBareEnv == [MCEnv EXCEPT !.file = FALSE, !.vectors = "halfvec"]

MCImages ==
  {[command |-> "api",     head |-> 9, migrate |-> TRUE,  env |-> MCEnv],
   [command |-> "api",     head |-> 7, migrate |-> TRUE,  env |-> MCOldEnv],
   [command |-> "api",     head |-> 9, migrate |-> FALSE, env |-> MCNextEnv],
   [command |-> "upgrade", head |-> 9, migrate |-> TRUE,  env |-> MCEnv],
   [command |-> "upgrade", head |-> 9, migrate |-> TRUE,  env |-> MCBareEnv]}

Row(on, column, value) == [on |-> on, column |-> column, value |-> value]

MCWrites ==
  {{Row("subscribers", "status", v)} : v \in {"pending", "paused", "left", "blocked"}}
    \union {{Row("users", "status", "inactive")}}
    \union {{Row("digests", "status", v)} : v \in {"ready", "queued", "skipped"}}
    \union {{Row(t, "source", "oai"), Row(t, "source", "arxiv")} :
              t \in {"item_sources", "repositories", "datasets", "harvest_queries",
                     "harvest_decisions", "metrics_harvest_daily"}}
    \union {{Row("user_interests", "polarity", "positive")},
            {Row("profile_interests", "polarity", "positive")},
            {Row("profile_vectors", "facet", "0"), Row("profile_vectors", "facet", "a facet")}}

MCScenarios ==
  {\* up and down by hand over any row
   [from |-> 9, starts |-> 0, moves |-> 11, edits |-> 0, writes |-> 1, outages |-> 0,
    halfvec |-> FALSE],
   \* an empty database and two starts at once, with an old extension and a new one
   [from |-> 0, starts |-> 2, moves |-> 1,  edits |-> 0, writes |-> 0, outages |-> 0,
    halfvec |-> TRUE],
   [from |-> 0, starts |-> 2, moves |-> 1,  edits |-> 0, writes |-> 0, outages |-> 0,
    halfvec |-> FALSE],
   \* an older release, what its administrator changed, and the next release
   [from |-> 7, starts |-> 2, moves |-> 0,  edits |-> 1, writes |-> 0, outages |-> 0,
    halfvec |-> TRUE],
   \* restarts at the head while the database comes and goes
   [from |-> 9, starts |-> 2, moves |-> 1,  edits |-> 1, writes |-> 0, outages |-> 1,
    halfvec |-> TRUE]}

=============================================================================
