------------------------------ MODULE MCAgent ------------------------------
(* Months of 2, 1 and 2 days, a longer second one in year 2.  The data      *)
(* begins late in year 1 and stops early in year 3; another build stops on  *)
(* the leap day and lacks a rate; another has no lines.  Three goods: two   *)
(* that share a CN prefix, one that no country lists.                       *)
EXTENDS Agent

Line(date, item, sku, customer, country, units, gbp, eur) ==
    [date |-> date, item |-> item, sku |-> sku, customer |-> customer, country |-> country,
     units |-> units, gbp |-> gbp, eur |-> eur]

Good(cn, words, own, fallback) == [cn |-> cn, words |-> words, own |-> own, fallback |-> fallback]
Certificates(a, b) == [y \in {1, 2} |-> IF y = 1 THEN a ELSE b]
MCGoods ==
    [iron |-> Good(<<7, 2, 1>>, {"metal", "iron"},
                   [A |-> Certificates(3, 4), B |-> Certificates(5, 6), C |-> Certificates(8, 10)], Certificates(9, 9)),
     steel |-> Good(<<7, 2, 6>>, {"metal", "steel"}, [A |-> Certificates(3, 3), B |-> Certificates(4, 5)], Null),
     cement |-> Good(<<2, 5>>, {"cement"}, [c \in {} |-> Null], Certificates(7, 7))]

MCEditions ==
    <<[goods |-> MCGoods, lines |-> <<
         Line(112, "sale", "x", 1, "A", 2, 6, 7), Line(131, "sale", "x", 1, "B", 1, 4, 5),
         Line(131, "sale", "z", 2, "A", 1, 2, 2),
         Line(211, "sale", "x", 1, "A", 3, 9, 10), Line(221, "sale", "y", Null, "B", 4, 8, 9),
         Line(222, "return", "x", 1, "A", -1, -3, -4), Line(232, "post", "p", Null, "A", 1, 5, 6),
         Line(311, "sale", "x", 2, "B", 2, 8, 8), Line(312, "sale", "y", 1, "A", 1, 3, 3),
         Line(321, "return", "y", 1, "A", -1, -2, -2)>>],
      [goods |-> [iron |-> MCGoods.iron], lines |-> <<
         Line(111, "sale", "x", 1, "A", 2, 6, 7), Line(121, "sale", "y", 2, "B", 1, 4, 5),
         Line(211, "sale", "x", 1, "A", 1, 4, Null), Line(222, "sale", "y", 3, "A", 2, 6, 7)>>],
      [goods |-> MCGoods, lines |-> <<>>]>>

Explain(a, b, currency) == [name |-> "explain_change", args |-> [a |-> a, b |-> b, currency |-> currency]]
Query(metrics, by, years, where) ==
    [name |-> "query_metric", args |-> [metrics |-> metrics, by |-> by, years |-> years, where |-> where]]
Term(key, digits, words) == [key |-> key, digits |-> digits, words |-> words]
Scenario(good, year, price, countries, tonnes) ==
    [name |-> "run_scenario", args |-> [good |-> good, year |-> year, price |-> price,
                                        countries |-> countries, tonnes |-> tonnes]]
Bad(name) == [name |-> name, args |-> Null]
Describe == [name |-> "describe_model", args |-> "fct_retail_order_line"]

MCAsked == {Explain(1, 3, "EUR"), Query({"customers"}, {"year"}, Null, Null), Bad("sum")}
MCBeside == {Explain(1, 2, "GBP")}

MCRequests ==
    MCAsked \cup {Describe}
    \cup {Explain(a, b, c) : a \in 1 .. 4, b \in 1 .. 3, c \in {"GBP", "EUR"}} \cup {Explain(1, 2, "JPY")}
    \cup {Query(ms, by, ys, w) : ms \in SUBSET {"net_revenue", "customers"},
              by \in {{}, {"month"}, {"year"}, {"country"}, {"month", "country"}, {"year", "month"}},
              ys \in {Null, <<1, 1>>, <<2, 3>>, <<3, 4>>}, w \in {Null, "A"}}
    \cup {Query({"profit"}, {}, Null, Null), Query({"customers"}, {}, Null, "Z")}
    \cup {Scenario(g, y, p, cs, t) :
              g \in {Term("iron", <<>>, {"iron"}), Term("", <<7, 2>>, {}), Term("", <<>>, {"metal", "steel"}),
                     Term("", <<>>, {"cement"}), Term("", <<>>, {"zinc"}), Term("", <<>>, {})},
              y \in {1, 2, 3}, p \in {0, 3, 5}, cs \in {<<>>, <<"a", "C">>, <<"a", "atlantis">>}, t \in {Null, 3, 999}}
MCSpellings == [a |-> "A", A |-> "A", C |-> "C"]
MCMonths == <<2, 1, 2>>
MCQuestions == {{<<77, 1>>}}
MCInvented == <<99, 7>>
=============================================================================
