---------------------------- MODULE MCWeatherFetch ----------------------------
(* The numbers of weather.py: Open-Meteo's three budgets, the waits in half  *)
(* seconds, and the units of a year (643), a cold start (three years) and a  *)
(* 90-day lookback (158, or split by a new year) for 41 capitals.            *)
EXTENDS WeatherFetch

MCLimits == {[window |-> 120, budget |-> 600],
             [window |-> 7200, budget |-> 5000],
             [window |-> 172800, budget |-> 10000]}
MCRetryAfter == [minutely |-> 130, hourly |-> 1320, unnamed |-> 130]

Years(n) == [i \in 1 .. n |-> 643]
FewAnswers == {"served", "minutely", "hourly", "daily", "unparseable", "timeout"}
Load(costs) == [costs |-> costs, backfill |-> FALSE, faults |-> 2, answers |-> FewAnswers]
Backfill(n) == [costs |-> Years(n), backfill |-> TRUE, faults |-> 2, answers |-> FewAnswers]

\* Incremental loads, a cold start, backfills either side of affordable, and
\* an incremental load into an archive last filled sixteen years ago.
\* One year with every answer that is worth a retry, two with one of them: faults
\* enough to exhaust the attempts of each.
MCPlans ==
  {Load(<<>>), Load(<<158>>), Load(<<79, 81>>), Load(Years(3)), Load(Years(16)),
   Backfill(6), Backfill(7),
   [costs |-> Years(1), backfill |-> FALSE, faults |-> 6,
    answers |-> {"served", "hourly", "unnamed", "client_error", "server_error", "reset"}],
   [costs |-> Years(2), backfill |-> FALSE, faults |-> 11, answers |-> {"served", "server_error"}]}
MCAnswers == FewAnswers \cup {"unnamed", "client_error", "server_error", "reset"}
==============================================================================
