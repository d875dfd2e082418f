--------------------------- MODULE MCWeatherArchive ---------------------------
(* A small calendar: years of three days, a lookback of two, and days that  *)
(* settle as late as the lookback allows.                                   *)
EXTENDS WeatherArchive

SomeYears == {<<0, 0>>, <<1, 1>>}
==============================================================================
