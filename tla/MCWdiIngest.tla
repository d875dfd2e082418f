----------------------------- MODULE MCWdiIngest -----------------------------
(* Two indicators over three years, one projected a year ahead, one a     *)
(* year behind; a lookback of two; pages of three years, then of two.       *)
EXTENDS WdiIngest

MCOrder == <<"gdp", "population">>
MCHorizon == [c \in {"gdp", "population"} |-> IF c = "gdp" THEN -1 ELSE 1]
MCConfigs == {<<0, 0>>, <<0, 2>>, <<2, 0>>, <<2, 3>>, <<3, 2>>}
=============================================================================
