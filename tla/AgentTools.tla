------------------------------ MODULE AgentTools ------------------------------
(***************************************************************************)
(* What the analyst's tools compute (agent/tools.py, bridge.py, metrics.py *)
(* and scenario.py) from one edition of the warehouse: the revenue bridge  *)
(* between two years, totals of the metrics, and the CBAM cost of a good.  *)
(* A date is 100 * year + 10 * month + day, a figure a fraction <<n, d>>.  *)
(***************************************************************************)
EXTENDS Integers, Sequences, FiniteSets, SequencesExt, FiniteSetsExt, TLC

CONSTANTS
    Null,           \* None
    Editions,       \* the warehouses builds make: their lines and their goods
    Months,         \* bound: the days of each month
    Leap,           \* bound: the years whose second month is a day longer
    MaxRows,        \* MAX_ROWS
    MaxCandidates,  \* MAX_CANDIDATES
    Years,          \* CERTIFICATE_COLUMNS
    Spellings,      \* the countries known, as [spelling |-> display name]
    BuildPrice,     \* the ETS price the warehouse was built with
    Places,         \* how many units of a certificate times a price make a penny
    MoneyStep,      \* what an amount of a bridge is printed to: 0.1k
    PointStep,      \* what a percentage point is printed to: 0.01
    MaxCost         \* the largest cost that can be priced to the penny

ASSUME ToolsAssumption ==
    /\ \A m \in DOMAIN Months : Months[m] \in 1 .. 8
    /\ Len(Months) \in 3 .. 9
    /\ {MaxRows, MaxCandidates, Places, MoneyStep, PointStep, MaxCost} \subseteq Nat \ {0}
    /\ \A e \in DOMAIN Editions : \A i \in DOMAIN Editions[e].lines :
          LET line == Editions[e].lines[i] IN line.item = "sale" => line.units > 0

-----------------------------------------------------------------------------
\* Exact fractions, in lowest terms.
Fraction(n, d) ==
    IF n = 0 THEN <<0, 1>>
    ELSE LET size == IF n < 0 THEN -n ELSE n
             g == Max({k \in 1 .. Min({size, d}) : n % k = 0 /\ d % k = 0})
         IN <<n \div g, d \div g>>

Whole(n) == <<n, 1>>
Plus(x, y) == Fraction(x[1] * y[2] + y[1] * x[2], x[2] * y[2])
Times(x, y) == Fraction(x[1] * y[1], x[2] * y[2])
Minus(x, y) == Plus(x, <<-y[1], y[2]>>)
Over(x, n) == IF n > 0 THEN Fraction(x[1], x[2] * n) ELSE Fraction(-x[1], -x[2] * n)

\* Printed to a step: the nearest multiple, the even one of two.
Rounded(x, step) ==
    LET size == IF x[1] < 0 THEN -x[1] ELSE x[1]
        unit == x[2] * step
        up == (2 * size + unit) \div (2 * unit)
        k == IF (2 * size + unit) % (2 * unit) = 0 /\ up % 2 = 1 THEN up - 1 ELSE up
    IN Whole(IF x[1] < 0 THEN -k * step ELSE k * step)

SumOf(f) ==
    LET Sum[S \in SUBSET DOMAIN f] ==
          IF S = {} THEN Whole(0) ELSE LET k == CHOOSE k \in S : TRUE IN Plus(f[k], Sum[S \ {k}])
    IN Sum[DOMAIN f]

-----------------------------------------------------------------------------
YearOf(date) == date \div 100
MonthDay(date) == date % 100

MonthDays(y, m) == IF m = 2 /\ y \in Leap THEN Months[m] + 1 ELSE Months[m]

FullYear == <<11, 10 * Len(Months) + Months[Len(Months)]>>

\* _date: a window that ends on the leap day, applied to a year without one.
DateIn(y, md) == 100 * y + 10 * (md \div 10) + Min({md % 10, MonthDays(y, md \div 10)})

Days(y) == UNION {{100 * y + 10 * m + d : d \in 1 .. MonthDays(y, m)} : m \in DOMAIN Months}

\* The first and last dates of the fact; <<>> with no lines.
Coverage(e) ==
    LET dates == {Editions[e].lines[i].date : i \in DOMAIN Editions[e].lines}
    IN IF dates = {} THEN <<>> ELSE <<Min(dates), Max(dates)>>

\* _covered and common_window.
Covered(y, cov) ==
    <<IF YearOf(cov[1]) = y THEN MonthDay(cov[1]) ELSE FullYear[1],
      IF YearOf(cov[2]) = y THEN MonthDay(cov[2]) ELSE FullYear[2]>>

\* Fault: cut at the end alone, where 2011 stops short.
CutAtTheEnd(a, b, cov) == <<Covered(a, cov)[1], Min({Covered(a, cov)[2], Covered(b, cov)[2]})>>

CommonWindow(a, b, cov) ==
    <<Max({Covered(a, cov)[1], Covered(b, cov)[1]}), Min({Covered(a, cov)[2], Covered(b, cov)[2]})>>

\* What a tool's ValueError or TypeError, or another error of DuckDB's, leaves the model.
Refusal == [text |-> "error", note |-> Null, figures |-> {}, detail |-> Null]

-----------------------------------------------------------------------------
\* _BRIDGE_SQL: the lines of a year in a window; a line's amount in a currency.
Lines(e, y, w) ==
    {i \in DOMAIN Editions[e].lines :
        LET date == Editions[e].lines[i].date IN YearOf(date) = y /\ date \in DateIn(y, w[1]) .. DateIn(y, w[2])}

Amount(e, i, currency) == IF currency = "GBP" THEN Editions[e].lines[i].gbp ELSE Editions[e].lines[i].eur

Total(e, S, items, currency) ==
    MapThenSumSet(LAMBDA i : Amount(e, i, currency), {i \in S : Editions[e].lines[i].item \in items})

NetRevenue(e, S, currency) == Total(e, S, {"sale", "return"}, currency)

\* Per SKU, its units and its pounds on sale lines.
Sales(e, S) ==
    LET sold == {i \in S : Editions[e].lines[i].item = "sale"}
        Of(sku) == {i \in sold : Editions[e].lines[i].sku = sku}
    IN [sku \in {Editions[e].lines[i].sku : i \in sold} |->
          [units |-> MapThenSumSet(LAMBDA i : Editions[e].lines[i].units, Of(sku)),
           gbp |-> MapThenSumSet(LAMBDA i : Editions[e].lines[i].gbp, Of(sku))]]

Units(sold, skus) == MapThenSumSet(LAMBDA s : sold[s].units, skus)
Pounds(sold, skus) == MapThenSumSet(LAMBDA s : sold[s].gbp, skus)

AveragePrice(sold, skus) ==
    IF Units(sold, skus) = 0 THEN Whole(0) ELSE Over(Whole(Pounds(sold, skus)), Units(sold, skus))

\* Year b's units at year a's prices.
AtPricesOf(a, b, skus) == SumOf([s \in skus |-> Over(Whole(b[s].units * a[s].gbp), a[s].units)])

\* Fault: the change in units at year b's average price.
VolumeAtLaterPrices(a, b, skus) == Times(Whole(Units(b, skus) - Units(a, skus)), AveragePrice(b, skus))

Volume(a, b, skus) == Times(Whole(Units(b, skus) - Units(a, skus)), AveragePrice(a, skus))

EffectNames == {"volume", "mix", "price", "new_skus", "discontinued_skus", "returns"}

\* The effects in pounds.
Effects(a, b, returns) ==
    LET both == DOMAIN a \cap DOMAIN b IN
    [volume |-> Volume(a, b, both),
     mix |-> Minus(AtPricesOf(a, b, both), Times(Whole(Units(b, both)), AveragePrice(a, both))),
     price |-> Minus(Whole(Pounds(b, both)), AtPricesOf(a, b, both)),
     new_skus |-> Whole(Pounds(b, DOMAIN b \ both)),
     discontinued_skus |-> Whole(-Pounds(a, DOMAIN a \ both)),
     returns |-> Whole(returns)]

Currencies == {"GBP", "EUR"}

Unpriced(e, S, currency) == \E i \in S : Amount(e, i, currency) = Null

\* alignment_note: the window, and the change over the full years.
AlignmentNote(call, window, fullA, fullB) ==
    IF window = FullYear THEN Null ELSE <<"aligned", call.a, call.b, window, fullA, fullB>>

\* render: a group's subtotal above its bars, the other bars, and the change; each is
\* printed on its own, as an amount and as points of the first year.
Members == [continuing |-> {"volume", "mix", "price"}, churn |-> {"new_skus", "discontinued_skus"}]

\* Fault: of the bars that rise.
SubtotalsOfRises(bars) ==
    [g \in DOMAIN Members |-> SumOf([k \in {k \in Members[g] : bars[k][1] > 0} |-> bars[k]])]

Subtotals(bars) == [g \in DOMAIN Members |-> SumOf([k \in Members[g] |-> bars[k]])]

Printed(amounts, from) ==
    [k \in DOMAIN amounts |->
        [money |-> Rounded(amounts[k], MoneyStep),
         points |-> Rounded(Over(Times(Whole(100), amounts[k]), from), PointStep)]]

RenderBridge(note, bars, from, to, ends, detail) ==
    LET change == Whole(to - from)
        lines == Printed(bars @@ Subtotals(bars) @@ [change |-> change], from)
    IN [text |-> "bridge", note |-> note,
        figures |-> {Rounded(x, MoneyStep) : x \in ends}
                    \cup UNION {{lines[k].money, lines[k].points} : k \in DOMAIN lines},
        detail |-> detail @@ [bars |-> bars, lines |-> lines, change |-> change]]

\* explain_change: the coverage was read from edition c, the lines are read from e.
BridgeOf(c, e, call) ==
    LET window == CommonWindow(call.a, call.b, Coverage(c))
        A == Lines(e, call.a, window)
        B == Lines(e, call.b, window)
        fullA == Lines(e, call.a, FullYear)
        fullB == Lines(e, call.b, FullYear)
        Net(S, currency) == NetRevenue(e, S, currency)
        rate == Over(Whole(Net(A, call.currency)), Net(A, "GBP"))
        effects == Effects(Sales(e, A), Sales(e, B),
                           Total(e, B, {"return"}, "GBP") - Total(e, A, {"return"}, "GBP"))
        fx == Minus(Whole(Net(B, call.currency)), Times(rate, Whole(Net(B, "GBP"))))
        bars == [k \in EffectNames \cup (IF call.currency = "GBP" THEN {} ELSE {"fx"}) |->
                    IF k = "fx" THEN fx ELSE Times(effects[k], rate)]
        Ends(S) == {Whole(Net(S, call.currency)), Whole(Total(e, S, {"sale", "return", "post"}, call.currency))}
    IN IF Unpriced(e, A \cup B, call.currency) \/ Net(A, "GBP") = 0
          \/ (window # FullYear /\ Unpriced(e, fullA \cup fullB, call.currency))
       THEN Refusal
       ELSE RenderBridge(AlignmentNote(call, window, Net(fullA, call.currency), Net(fullB, call.currency)),
                         bars, Net(A, call.currency), Net(B, call.currency), Ends(A) \cup Ends(B),
                         [years |-> {call.a, call.b}, coverage |-> Coverage(c), window |-> window])

ExplainChange(c, e, call) ==
    LET cov == Coverage(c) IN
    IF \/ call.currency \notin Currencies \/ call.a = call.b \/ cov = <<>>
       \/ ~({call.a, call.b} \subseteq YearOf(cov[1]) .. YearOf(cov[2]))
    THEN Refusal
    ELSE LET window == CommonWindow(call.a, call.b, cov)
         IN IF window[1] > window[2] THEN Refusal ELSE BridgeOf(c, e, call)

-----------------------------------------------------------------------------
\* query_metric.  MetricFlow groups the lines a request selects: each metric's own filter.
Metrics == [net_revenue |-> {"sale", "return"}, customers |-> {"sale"}]
Grains == {"year", "month"}
GroupBy == Grains \cup {"country"}

Selected(e, call) ==
    {i \in DOMAIN Editions[e].lines :
        LET line == Editions[e].lines[i] IN
        /\ \E m \in call.metrics : line.item \in Metrics[m]
        /\ call.years # Null => YearOf(line.date) \in call.years[1] .. call.years[2]
        /\ call.where # Null => line.country = call.where}

Customers(e, S) ==
    Cardinality({Editions[e].lines[i].customer : i \in {i \in S : Editions[e].lines[i].item \in Metrics.customers}}
                \ {Null})

Value(metric, e, S) == IF metric = "customers" THEN Customers(e, S) ELSE NetRevenue(e, S, "GBP")

\* _bucket: a period's first and last day.
Bucket(grain, date) ==
    LET y == YearOf(date)
        m == MonthDay(date) \div 10
    IN IF grain = "year" THEN <<100 * y + FullYear[1], 100 * y + FullYear[2]>>
       ELSE <<100 * y + 10 * m + 1, 100 * y + 10 * m + MonthDays(y, m)>>

Label(e, i, by) ==
    [g \in by |-> IF g = "country" THEN Editions[e].lines[i].country ELSE Bucket(g, Editions[e].lines[i].date)]

Groups(e, S, by) == {{j \in S : Label(e, j, by) = Label(e, i, by)} : i \in S}

\* Fault: the rows are added up.
AddedUp(metric, e, S, by) == MapThenSumSet(LAMBDA group : Value(metric, e, group), Groups(e, S, by))

\* The "all" row: a request of its own, with no grouping.
AllRow(metric, e, S, by) == Value(metric, e, S)

\* Fault: a period is partial only where it runs past the last date.
PartialAtTheEnd(periods, cov) == {p \in periods : cov[2] < p[2]}

Partial(periods, cov) == {p \in periods : <<Max({p[1], cov[1]}), Min({p[2], cov[2]})>> # p}

\* coverage_note.
CoverageNote(partial) == IF partial = {} THEN Null ELSE <<"partly covered", partial>>

\* render: each group's values, then "all", which an ungrouped request has as its row.
TableFigures(e, call, groups, totals) ==
    {Whole(totals[m]) : m \in call.metrics}
    \cup {Whole(Value(m, e, group)) : m \in call.metrics, group \in groups}

QueryRefused(c, e, call) ==
    \/ call.metrics = {} \/ ~(call.metrics \subseteq DOMAIN Metrics) \/ ~(call.by \subseteq GroupBy)
    \/ Cardinality(call.by \cap Grains) > 1 \/ Coverage(c) = <<>>
    \/ call.years # Null /\ ~(/\ call.years[1] <= call.years[2]
                              /\ YearOf(Coverage(c)[1]) <= call.years[1]
                              /\ call.years[2] <= YearOf(Coverage(c)[2]))
    \/ call.where # Null /\ call.where \notin {Editions[e].lines[i].country : i \in DOMAIN Editions[e].lines}

QueryMetric(c, e, call) ==
    IF QueryRefused(c, e, call) THEN Refusal
    ELSE LET S == Selected(e, call)
             groups == Groups(e, S, call.by)
             totals == [m \in call.metrics |-> AllRow(m, e, S, call.by)]
             periods == IF call.by \cap Grains # {}
                        THEN {Bucket(g, Editions[e].lines[i].date) : g \in call.by \cap Grains, i \in S}
                        ELSE IF call.years # Null
                        THEN {Bucket("year", 100 * y) : y \in call.years[1] .. call.years[2]} ELSE {}
             partial == Partial(periods, Coverage(c))
             over == {m \in call.metrics \cap {"customers"} : AddedUp(m, e, S, call.by) # totals[m]}
         IN IF Cardinality(groups) > MaxRows THEN Refusal
            ELSE [text |-> "table",
                  note |-> CoverageNote(partial), figures |-> TableFigures(e, call, groups, totals),
                  detail |-> [edition |-> e, groups |-> groups, periods |-> periods, partial |-> partial,
                              totals |-> totals, over |-> over]]

-----------------------------------------------------------------------------
\* run_scenario.  find_goods: an exact key, else a CN prefix, else every word.
Goods(e) == Editions[e].goods

FindGoods(e, term) ==
    IF term.key \in DOMAIN Goods(e) THEN {term.key}
    ELSE IF term.digits # <<>> THEN {g \in DOMAIN Goods(e) : IsPrefix(term.digits, Goods(e)[g].cn)}
    ELSE {g \in DOMAIN Goods(e) : term.words \subseteq Goods(e)[g].words}

\* euros: rounded to the penny once, halves up.
Euros(certificates, price, tonnes) == (2 * certificates * price * tonnes + Places) \div (2 * Places)

\* statistics.median of the listed values, quantized.
Median(own) ==
    LET n == Cardinality(DOMAIN own)
        Nth(k) == Min({own[c] : c \in {c \in DOMAIN own : Cardinality({d \in DOMAIN own : own[d] <= own[c]}) >= k}})
    IN IF n % 2 = 1 THEN Nth((n + 1) \div 2) ELSE (Nth(n \div 2) + Nth((n \div 2) + 1) + 1) \div 2

Ladder(own) ==
    IF DOMAIN own = {} THEN <<>>
    ELSE <<[name |-> "cheapest", certificates |-> Min({own[c] : c \in DOMAIN own})],
           [name |-> "median", certificates |-> Median(own)],
           [name |-> "dearest", certificates |-> Max({own[c] : c \in DOMAIN own})]>>

\* The prices a row is printed at: the scenario's, the build's when they differ, and
\* the shipment's.
Columns(call) ==
    <<<<call.price, 1>>>> \o (IF call.price = BuildPrice THEN <<>> ELSE <<<<BuildPrice, 1>>>>)
    \o (IF call.tonnes = Null THEN <<>> ELSE <<<<call.price, call.tonnes>>>>)

\* The gap between dearest and cheapest, at one of those prices.
\* Fault: priced as one difference, which rounds once where the table rounds twice.
GapOfCertificates(ladder, column) ==
    Euros(ladder[3].certificates - ladder[1].certificates, column[1], column[2])

Gap(ladder, column) ==
    Euros(ladder[3].certificates, column[1], column[2]) - Euros(ladder[1].certificates, column[1], column[2])

\* scenario_note: the figures are gross, the price assumed.
ScenarioNote(call) == <<"gross", call.price>>

\* render: each row's cost in each column, and the gaps; the refusal of a cost too large.
RenderScenario(call, rows, ladder, detail) ==
    LET columns == Columns(call)
        costs == [i \in DOMAIN rows |-> [k \in DOMAIN columns |-> Euros(rows[i].certificates, columns[k][1], columns[k][2])]]
        gaps == IF ladder = <<>> THEN <<>> ELSE [k \in DOMAIN columns |-> Gap(ladder, columns[k])]
    IN IF \E i \in DOMAIN costs : \E k \in DOMAIN columns : costs[i][k] > MaxCost THEN Refusal
       ELSE [text |-> "scenario", note |-> ScenarioNote(call),
             figures |-> {Whole(costs[i][k]) : i \in DOMAIN rows, k \in DOMAIN columns}
                         \cup {Whole(gaps[k]) : k \in DOMAIN gaps}
                         \cup {Whole(costs[i][1] - costs[i][2]) : i \in {i \in DOMAIN rows : call.price # BuildPrice}},
             detail |-> detail @@ [rows |-> rows, costs |-> costs, gaps |-> gaps]]

\* run_scenario: the ladder, the fallback, and the countries asked for.
ScenarioOf(e, g, call) ==
    LET good == Goods(e)[g]
        own == [c \in DOMAIN good.own |-> good.own[c][call.year]]
        fallback == IF good.fallback = Null THEN <<>>
                    ELSE <<[name |-> "fallback", certificates |-> good.fallback[call.year]]>>
        asked == [i \in DOMAIN call.countries |-> Spellings[call.countries[i]]]
        listed == SelectSeq(asked, LAMBDA c : c \in DOMAIN own)
        priced == [i \in DOMAIN listed |-> [name |-> listed[i], certificates |-> own[listed[i]]]]
    IN RenderScenario(call, Ladder(own) \o fallback \o priced, Ladder(own),
                      [asked |-> asked, unlisted |-> SelectSeq(asked, LAMBDA c : c \notin DOMAIN own)])

RunScenario(e, call) ==
    LET goods == FindGoods(e, call.good) IN
    IF \/ call.year \notin Years \/ call.price <= 0 \/ (call.tonnes # Null /\ call.tonnes <= 0)
       \/ call.good = [key |-> "", digits |-> <<>>, words |-> {}] \/ goods = {}
    THEN Refusal
    ELSE IF Cardinality(goods) > 1
    THEN [text |-> "candidates", note |-> Null, figures |-> {Whole(Cardinality(goods))},
          detail |-> [matched |-> Cardinality(goods), shown |-> Min({Cardinality(goods), MaxCandidates})]]
    ELSE IF \E i \in DOMAIN call.countries : call.countries[i] \notin DOMAIN Spellings THEN Refusal
    ELSE ScenarioOf(e, CHOOSE g \in goods : TRUE, call)

-----------------------------------------------------------------------------
Tools == {"explain_change", "describe_model", "query_metric", "run_scenario"}

\* call_tool before anything is opened: an unknown tool, arguments that are no object,
\* one the tool needs and was not given, or no metric.
RefusedUnopened(call) ==
    \/ call.name \notin Tools \/ call.args = Null
    \/ call.name = "query_metric" /\ call.args.metrics = {}

\* ... or one that reads the manifests alone.
Unopened(call) == RefusedUnopened(call) \/ call.name = "describe_model"

\* describe_model reads the manifests alone, and prints no figure.
Described == [text |-> "model", note |-> Null, figures |-> {}, detail |-> Null]

\* The result of a call that read the fact's bounds from c and its rows from e.
ResultOf(c, e, call) ==
    CASE call.name = "explain_change" -> ExplainChange(c, e, call.args)
      [] call.name = "query_metric" -> QueryMetric(c, e, call.args)
      [] call.name = "run_scenario" -> RunScenario(e, call.args)
=============================================================================
