--------------------------- MODULE MCAssetRefresh ---------------------------
(* Four countries in two income groups, two of them as intensive; loads that *)
(* are whole, lack an indicator, or have nothing to measure; a book of five  *)
(* customers with ties on a break point and one unmeasured, and an empty one.*)
EXTENDS AssetRefresh

Row(g, co2, gdp) == [group |-> g, co2 |-> co2, gdp |-> gdp]
Whole == [a |-> Row(1, 2, 1), b |-> Row(1, 4, 2), c |-> Row(1, 6, 1), d |-> Row(2, Null, 1)]
MCLoads == <<[missing |-> FALSE, rows |-> Whole],
             [missing |-> TRUE, rows |-> Whole],
             [missing |-> FALSE, rows |-> [a |-> Row(1, 2, 0)]]>>
Customer(last, orders, net) == [last |-> last, orders |-> orders, net |-> net]
MCBooks == <<<<Customer(1, 1, 5), Customer(2, 1, 5), Customer(2, 1, Null), Customer(4, 2, 9), Customer(9, 3, 1)>>, <<>>>>
MCSubmitted == {"publish_site", "publish_site_from_raw"}
MCTyped == {"load_retail", "dbt_unit_test", "report", "pipeline_status"}
=============================================================================
