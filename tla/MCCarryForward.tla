---------------------------- MODULE MCCarryForward ----------------------------
(* Instances of CarryForward for TLC: two carried tables, in CARRIED's order, *)
(* and releases with every kind of table in each place.                       *)
EXTENDS CarryForward, TLC

TwoTables == <<"history", "pipeline_runs">>

Release(history, runs, archive) ==
  [tables |-> ("history" :> history @@ "pipeline_runs" :> runs), archive |-> archive]

SomeReleases ==
  {Release("rows", "rows", "none"), Release("rows", "rows", "good"),
   Release("rows", "rows", "bad"), Release("rows", "malformed", "none"),
   Release("empty", "rows", "good"), Release("absent", "rows", "none"),
   Release("rows", "absent", "good")}
==============================================================================
