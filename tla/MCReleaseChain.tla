---------------------------- MODULE MCReleaseChain ----------------------------
(* Instances of ReleaseChain for TLC: which tags a dispatch types, and what  *)
(* builds publish: a table verify asks for, one read off the landing zone    *)
(* and an exempt one.                                                        *)
EXTENDS ReleaseChain, TLC

SomeTags == {2, 3}

Published(emissions, runs) == "emissions" :> emissions @@ "weather" :> {} @@ "pipeline_runs" :> runs

\* All of it; two years in the middle gone and no weather table any more; the first year
\* gone, a loss by its span and not by its rows, and the exempt table shorter.
SomeBuilds ==
  {Published(0 .. 3, 0 .. 3), "emissions" :> {0, 3} @@ "pipeline_runs" :> 0 .. 3,
   Published(1 .. 3, {3})}
==============================================================================
