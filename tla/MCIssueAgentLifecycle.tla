----------------------- MODULE MCIssueAgentLifecycle -----------------------
EXTENDS IssueAgentLifecycle

\* What else may happen in each run; the faults count towards MaxFaults.
Races ==
  {"slow dispatch", "foreign push", "refusal", "control gone",
   "lost write", "lost dispatch", "dead job"}
TimeAndDeaths == {"deadline", "expiry", "refusal", "control gone", "dead job"}
CronAndDeadline == {"busy cron", "deadline"}
CronAndLostWrite == {"busy cron", "lost write"}
=============================================================================
