---------------------------- MODULE AssetRefresh ----------------------------
(***************************************************************************)
(* Refreshing the warehouse and the site (orchestration/, transform/,      *)
(* publish/build_report.py, modern_data_stack/observability.py and db.py): *)
(* the jobs' steps in the order of the asset graph, the checks that stop   *)
(* what is downstream of them, the queue that admits one run, and the      *)
(* commands that run beside it.  The steps are modelled by what they write:*)
(* the marts, the two derived tables, the run history and the served site. *)
(***************************************************************************)
EXTENDS Integers, Sequences, FiniteSets, SequencesExt, FiniteSetsExt

CONSTANTS
    Procs,          \* bound: processes at a time
    Null,           \* SQL's null
    Loads,          \* what a WDI load may land: its rows, whether a series is missing
    Books,          \* what a retail load may land: [customer |-> last, orders, net]
    KgPerMt,        \* kg_per_mt, scaled so that every ratio is whole
    Submitted,      \* bound: the jobs the UI or the schedule submits
    Typed,          \* bound: the jobs and recipes typed in a shell
    MaxStarts,      \* bound: jobs submitted to the queue and commands typed in a shell
    MaxDeploys      \* bound: changes of the code's tests

\* A load is whole numbers where it holds something, a book is measured but for its net
\* spend.
ASSUME RefreshAssumption ==
    /\ Procs # {} /\ {MaxStarts, MaxDeploys} \subseteq Nat /\ KgPerMt \in Nat \ {0} /\ Null \notin Int
    /\ Loads \in Seq(ToSet(Loads)) /\ Books \in Seq(ToSet(Books)) /\ Books # <<>>
    /\ \A load \in ToSet(Loads) :
         /\ load.missing \in BOOLEAN /\ IsFiniteSet(DOMAIN load.rows)
         /\ \A row \in {load.rows[c] : c \in DOMAIN load.rows} :
              /\ row.co2 \in Int \cup {Null} /\ row.gdp \in Nat
              /\ row.gdp = 0 \/ KgPerMt % row.gdp = 0
    /\ \A book \in ToSet(Books) :
         /\ IsFiniteSet(DOMAIN book)
         /\ \A c \in DOMAIN book : {book[c].last, book[c].orders} \subseteq Int /\ book[c].net \in Int \cup {Null}
    /\ Submitted \subseteq {"load_retail", "full_refresh", "publish_site", "publish_site_from_raw"}

VARIABLES
    queue,      \* the jobs waiting in Dagster's queue
    proc,       \* [process |-> the run or recipe it executes]
    raw,        \* which WDI load and which book the landing zone holds; 0 is none
    cached,     \* the landing zone live.yml cached, after a green materialize
    wh,         \* the warehouse's tables
    artifact,   \* the invocation run_results.json describes; 0 is no file
    ran,        \* every dbt command and what it found, in order; "killed" wrote no results
    code,       \* the tests of the code as it stands
    manifest,   \* the tests dbt/target/manifest.json lists: the code's when dbt last parsed it
    site,       \* the extracted parquet, reports/build and what is served
    submits, shells

vars == <<queue, proc, raw, cached, wh, artifact, ran, code, manifest, site, submits, shells>>

-----------------------------------------------------------------------------
\* The graph.  A step that builds the site has build_report.run's four stages.
\* Fault: the site is served before the dbt docs are in it.
ServedEarly == <<"sources", "evidence_build", "publish_to", "dbt_docs">>

SiteSteps == <<"sources", "evidence_build", "dbt_docs", "publish_to">>

Ingest == <<"ingest_public_indicators", "ingest_by_year", "wdi_indicators_all_present",
            "weather_revisions_are_derivable", "snapshot_expiry">>
Model == <<"dbt_models", "mart_covers_recent_years", "fx_rates_reach_the_present",
           "co2_intensity", "co2_intensity_rank_is_dense",
           "retail_rfm", "rfm_scores_do_not_split_ties",
           "pipeline_status", "run_history_records_this_build">>
Site == SiteSteps \o <<"site_pages_all_rendered">>

Jobs == [load_retail |-> <<"ingest_retail">>,
         full_refresh |-> Ingest \o Model,
         publish_site |-> Ingest \o Model \o Site,
         publish_site_from_raw |-> Model \o Site]

\* The just recipes that start no Dagster run: each stops at its first failure.
Recipes == [dbt_build |-> <<"dbt_models">>,
            dbt_unit_test |-> <<"dbt_unit_test">>,
            transform |-> <<"co2_intensity", "retail_rfm">>,
            pipeline_status |-> <<"pipeline_status">>,
            report |-> SiteSteps]

Checks == [wdi_indicators_all_present |-> "ingest_by_year",
           weather_revisions_are_derivable |-> "ingest_by_year",
           mart_covers_recent_years |-> "dbt_models", fx_rates_reach_the_present |-> "dbt_models",
           co2_intensity_rank_is_dense |-> "co2_intensity", rfm_scores_do_not_split_ties |-> "retail_rfm",
           run_history_records_this_build |-> "pipeline_status", site_pages_all_rendered |-> "publish_to"]

\* Fault: the checks report, and block nothing.
NoneBlocks == {}

Blocking == {"wdi_indicators_all_present", "co2_intensity_rank_is_dense", "rfm_scores_do_not_split_ties",
             "run_history_records_this_build", "site_pages_all_rendered"}

\* SITE_DEPS: every asset a source query reads.
SiteDeps == {"dbt_models", "co2_intensity", "retail_rfm", "pipeline_status"}

Deps(s) ==
    CASE s = "snapshot_expiry" -> {"ingest_public_indicators", "ingest_by_year"}
      [] s = "dbt_models" -> {"ingest_public_indicators", "ingest_by_year", "ingest_retail"}
      [] s \in {"co2_intensity", "retail_rfm"} -> {"dbt_models"}
      [] s = "pipeline_status" -> {"co2_intensity", "retail_rfm"}
      [] s = "sources" -> SiteDeps
      [] s \in {SiteSteps[i] : i \in 2 .. 4} -> {SiteSteps[i] : i \in {i \in 1 .. 3 : SiteSteps[i + 1] = s}}
      [] OTHER -> {}

\* What a step waits for: its assets and the blocking checks on them.
Upstream(s) ==
    IF s \in DOMAIN Checks THEN {Checks[s]}
    ELSE Deps(s) \cup {c \in Blocking : Checks[c] \in Deps(s)}

Steps == UNION {ToSet(Jobs[j]) : j \in DOMAIN Jobs}

\* Every step a step waits for, at any distance.
Above[s \in Steps] == UNION {{u} \cup Above[u] : u \in Upstream(s) \cap Steps}

Before == [s \in Steps |-> Above[s]]

\* The files a step opens, and the ones it opens to write.  The site's rendering and
\* copying open neither.
Opens(s) ==
    CASE s \in {"ingest_retail", "ingest_public_indicators", "ingest_by_year", "snapshot_expiry",
                "wdi_indicators_all_present", "weather_revisions_are_derivable"} -> {"lake"}
      [] s \in {"dbt_models", "dbt_docs", "pipeline_status", "dbt_unit_test"} -> {"lake", "warehouse"}
      [] s \in {"evidence_build", "publish_to", "site_pages_all_rendered"} -> {}
      [] OTHER -> {"warehouse"}

Writes(s) ==
    IF s \in DOMAIN Checks \cup {"sources"} THEN {}
    ELSE IF Opens(s) = {"lake"} THEN {"lake"} ELSE Opens(s) \cap {"warehouse"}

-----------------------------------------------------------------------------
\* The tests of the build: the model each guards, how dbt scores its audit table and
\* what a failure is worth.  equal_rowcount stores a one-row summary either way.
Tests == [not_null |-> [of |-> "mart", summary |-> FALSE, severity |-> "error"],
          equal_rowcount |-> [of |-> "dim", summary |-> TRUE, severity |-> "error"],
          latest_vintage |-> [of |-> "mart", summary |-> FALSE, severity |-> "warn"]]

Rows(t, failing) == IF Tests[t].summary \/ failing THEN 1 ELSE 0

\* fail_calc over the audit table.
\* Fault: its rows are counted.
CountedRows(t, failing) == Rows(t, failing)

FailingRows(t, failing) == IF failing THEN Rows(t, failing) ELSE 0

Verdict(t, failures) ==
    IF failures = 0 THEN "pass" ELSE IF Tests[t].severity = "error" THEN "fail" ELSE "warn"

\* build_tests: the audit tables of tests the manifest still has.
\* Fault: an audit table no test owns any more is scored too.
WithOrphans(audit) == [t \in {t \in DOMAIN Tests : audit[t] # Null} |-> Verdict(t, FailingRows(t, audit[t]))]

BuildTests(audit) ==
    [t \in {t \in manifest : audit[t] # Null} |-> Verdict(t, FailingRows(t, audit[t]))]

-----------------------------------------------------------------------------
\* build_co2_intensity, one year of it: ranked within the income group where both
\* columns hold something.
Ratio(row) == (row.co2 * KgPerMt) \div row.gdp

Measured(rows) == {c \in DOMAIN rows : rows[c].gdp > 0 /\ rows[c].co2 # Null}

Cohort(rows, c) == {d \in Measured(rows) : rows[d].group = rows[c].group}

\* Fault: ranked as a race is, the places a tie takes left out.
RankedMin(rows) ==
    [c \in Measured(rows) |-> 1 + Cardinality({d \in Cohort(rows, c) : Ratio(rows[d]) < Ratio(rows[c])})]

Ranked(rows) ==
    [c \in Measured(rows) |->
        Cardinality({Ratio(rows[d]) : d \in {d \in Cohort(rows, c) : Ratio(rows[d]) <= Ratio(rows[c])}})]

-----------------------------------------------------------------------------
\* assign_quintiles: a value's bin between the column's quantiles, which interpolate
\* between neighbours; scaled by the number of bins, they are whole.
Present(column) == {c \in DOMAIN column : column[c] # Null}

Nth(column, n) ==
    Min({column[c] : c \in {c \in Present(column) :
                              Cardinality({d \in Present(column) : column[d] <= column[c]}) >= n}})

Quantile(column, k) ==
    LET at == k * (Cardinality(Present(column)) - 1)
        part == at % 5
    IN IF part = 0 THEN 5 * Nth(column, (at \div 5) + 1)
       ELSE ((5 - part) * Nth(column, (at \div 5) + 1)) + (part * Nth(column, (at \div 5) + 2))

\* Fault: SQL's ntile, by position.
NTile(column) ==
    [c \in DOMAIN column |-> IF column[c] = Null THEN Null
       ELSE 1 + ((5 * Cardinality({d \in Present(column) : column[d] < column[c] \/ (column[d] = column[c] /\ d < c)}))
                 \div Cardinality(Present(column)))]

Quintiles(column) ==
    LET cuts == [k \in 1 .. 4 |-> Quantile(column, k)]
    IN [c \in DOMAIN column |-> IF column[c] = Null THEN Null
          ELSE 1 + Cardinality({k \in 1 .. 4 : 5 * column[c] > cuts[k]})]

SegmentGrid ==
    << <<"Lost", "Lost", "At Risk", "Can't Lose Them", "Can't Lose Them">>,
       <<"Hibernating", "Hibernating", "At Risk", "At Risk", "Can't Lose Them">>,
       <<"About to Sleep", "About to Sleep", "Need Attention", "Loyal Customers", "Loyal Customers">>,
       <<"Promising", "Potential Loyalist", "Potential Loyalist", "Loyal Customers", "Champions">>,
       <<"New Customers", "Promising", "Potential Loyalist", "Loyal Customers", "Champions">> >>

RecencyDays(book) ==
    LET asOf == Max({book[c].last : c \in DOMAIN book})
    IN [c \in DOMAIN book |-> asOf - book[c].last]

\* build_retail_rfm: recency counts down, and the cell needs all three scores.
Scored(book) ==
    LET recency == Quintiles(RecencyDays(book))
        frequency == Quintiles([c \in DOMAIN book |-> book[c].orders])
        monetary == Quintiles([c \in DOMAIN book |-> book[c].net])
    IN [c \in DOMAIN book |->
          [r |-> 6 - recency[c], f |-> frequency[c], m |-> monetary[c],
           total |-> IF monetary[c] = Null THEN Null ELSE 6 - recency[c] + frequency[c] + monetary[c],
           segment |-> SegmentGrid[6 - recency[c]][frequency[c]]]]

Scores == [b \in DOMAIN Books |-> IF Books[b] = <<>> THEN <<>> ELSE Scored(Books[b])]

Ranks == [l \in DOMAIN Loads |-> Ranked(Loads[l].rows)]

-----------------------------------------------------------------------------
\* A process with nothing to do, and one that starts a job or a recipe.  alone says
\* that no other process has run beside it; denied, that a step of its was refused a
\* file another held; inv, its dbt build.
Idle == [kind |-> "idle", steps |-> <<>>, left |-> {}, at |-> "", lost |-> {}, alone |-> TRUE,
         denied |-> FALSE, inv |-> 0]

Active == {p \in Procs : proc[p].kind # "idle"}

Started(p, kind, steps) ==
    [q \in Procs |->
        IF q = p THEN [Idle EXCEPT !.kind = kind, !.steps = steps, !.left = ToSet(steps), !.alone = Active = {}]
        ELSE IF proc[q].kind = "idle" THEN proc[q] ELSE [proc[q] EXCEPT !.alone = FALSE]]

\* max_concurrent_runs: every run in progress in the instance counts, a command's too.
\* Fault: Dagster's default, ten.
TenRuns == Cardinality({p \in Active : proc[p].kind # "recipe"}) < 10

MayDequeue == \A p \in Active : proc[p].kind = "recipe"

Nothing == [mart |-> Null, dim |-> Null, co2 |-> Null, rfm |-> Null,
            audit |-> [t \in DOMAIN Tests |-> Null], status |-> Null, history |-> <<>>]

NoBuild == [of |-> {}, whole |-> FALSE, docs |-> FALSE]

Init ==
    /\ queue = <<>> /\ proc = [p \in Procs |-> Idle]
    \* No load of these sources yet, or a book loaded by an earlier load_retail.
    /\ raw \in [wdi : {0}, book : {0, 1}] /\ cached = raw
    /\ wh = Nothing /\ artifact = 0 /\ ran = <<>> /\ code = DOMAIN Tests /\ manifest = code
    /\ site = [parquet |-> Null, build |-> NoBuild, served |-> NoBuild]
    /\ submits = 0 /\ shells = 0

\* The UI or the daily schedule submits a job.
Submit ==
    /\ submits + shells < MaxStarts /\ submits' = submits + 1
    /\ \E job \in Submitted : queue' = Append(queue, Jobs[job])
    /\ UNCHANGED <<proc, raw, cached, wh, artifact, ran, code, manifest, site, shells>>

\* Processes are alike: the next to start is any one that is idle.
Free(p) == proc[p] = Idle /\ p = CHOOSE q \in Procs : proc[q] = Idle

\* The daemon starts the next job once no run is in progress.
Dequeue(p) ==
    /\ Free(p) /\ queue # <<>> /\ MayDequeue
    /\ proc' = Started(p, "queued", Head(queue)) /\ queue' = Tail(queue)
    /\ UNCHANGED <<raw, cached, wh, artifact, ran, code, manifest, site, submits, shells>>

\* A recipe typed in a shell starts at once; one that runs a job in its own process has
\* dbt parse the code first.
Type(p) ==
    /\ Free(p) /\ submits + shells < MaxStarts /\ shells' = shells + 1
    /\ \/ /\ \E job \in DOMAIN Jobs \cap Typed : proc' = Started(p, "command", Jobs[job])
          /\ manifest' = code
       \/ /\ \E recipe \in DOMAIN Recipes \cap Typed : proc' = Started(p, "recipe", Recipes[recipe])
          /\ UNCHANGED manifest
    /\ UNCHANGED <<queue, raw, cached, wh, artifact, ran, code, site, submits>>

\* A test is dropped from the code; its audit table stays, and manifest.json until dbt
\* parses the code again.  Bound: while nothing runs, and a test that has run.
Deploy ==
    /\ Active = {} /\ Cardinality(DOMAIN Tests \ code) < MaxDeploys
    /\ \E t \in code : wh.audit[t] # Null /\ code' = code \ {t}
    /\ UNCHANGED <<queue, proc, raw, cached, wh, artifact, ran, manifest, site, submits, shells>>

-----------------------------------------------------------------------------
\* A step ends: a job drops what is downstream of a failure, a recipe all that is left.
After(r, s, ok) ==
    LET lost == IF ok THEN {}
                ELSE IF r.kind = "recipe" THEN r.left
                ELSE {s} \cup {t \in r.left : s \in Before[t]}
    IN [r EXCEPT !.at = "", !.lost = @ \cup lost, !.left = @ \ ({s} \cup lost)]

Done(p, ok) == proc' = [proc EXCEPT ![p] = After(@, @.at, ok)]

Busy(p, s) ==
    \E q \in Active \ {p} : \E file \in Opens(s) \cap Opens(proc[q].at) :
        file \in Writes(s) \cup Writes(proc[q].at)

\* s is the first of the steps p has left.
IsNext(p, s) ==
    \E n \in DOMAIN proc[p].steps :
        /\ s = proc[p].steps[n] /\ s \in proc[p].left
        /\ \A m \in 1 .. n - 1 : proc[p].steps[m] \notin proc[p].left

\* The next step opens its files, or fails on the one another process holds.
Begin(p) ==
    /\ p \in Active /\ proc[p].at = ""
    /\ \E s \in proc[p].left :
         /\ IsNext(p, s)
         /\ proc' = [proc EXCEPT ![p] = IF Busy(p, s) THEN [After(@, s, FALSE) EXCEPT !.denied = TRUE]
                                     ELSE [@ EXCEPT !.at = s]]
    /\ UNCHANGED <<queue, raw, cached, wh, artifact, ran, code, manifest, site, submits, shells>>

At(p, s) == p \in Active /\ proc[p].at = s

\* A publisher, npm, dbt or a query fails, and the step with it, having written nothing,
\* or dbt the manifest alone.  Bound: the first thing to go wrong in its run.
StepFails(p) ==
    /\ p \in Active /\ proc[p].at # "" /\ proc[p].lost = {} /\ Done(p, FALSE)
    /\ manifest' \in {manifest} \cup (IF proc[p].at \in {"dbt_models", "dbt_unit_test"} THEN {code} ELSE {})
    /\ UNCHANGED <<queue, raw, cached, wh, artifact, ran, code, site, submits, shells>>

\* The steps that load the landing zone.
Load(p) ==
    /\ \/ At(p, "ingest_retail") /\ \E b \in DOMAIN Books : raw' = [raw EXCEPT !.book = b]
       \/ At(p, "ingest_by_year") /\ \E l \in DOMAIN Loads : raw' = [raw EXCEPT !.wdi = l]
       \/ (At(p, "ingest_public_indicators") \/ At(p, "snapshot_expiry")) /\ UNCHANGED raw
    /\ Done(p, TRUE)
    /\ UNCHANGED <<queue, cached, wh, artifact, ran, code, manifest, site, submits, shells>>

Source == [mart |-> raw.wdi, dim |-> raw.book]

\* What dbt says of each node, and the audit tables once these tests have run.
Results(built, tested, failing) ==
    [n \in {"mart", "dim"} \cup code |->
        IF n \in built THEN "success"
        ELSE IF n \in tested THEN Verdict(n, IF n \in failing THEN 1 ELSE 0) ELSE "skipped"]

Audited(tested, failing) == [t \in DOMAIN Tests |-> IF t \in tested THEN t \in failing ELSE wh.audit[t]]

TestsOf(built) == {t \in code : Tests[t].of \in built}

\* dbt build: each model that is not broken is replaced and its tests run; the results
\* are written when it ends.  It fails on a broken model or an error-severity failure.
DbtModels(p) ==
    /\ At(p, "dbt_models")
    /\ \E broken \in SUBSET {"mart", "dim"}, failing \in SUBSET code :
         /\ Cardinality(broken) + Cardinality(failing) <= 1
         /\ LET built == {m \in {"mart", "dim"} \ broken : Source[m] # 0}
                inv == Len(ran) + 1
                Table(m) == IF m \in built THEN [inv |-> inv, data |-> Source[m]] ELSE wh[m]
                results == Results(built, TestsOf(built), failing)
            IN /\ wh' = [wh EXCEPT !.mart = Table("mart"), !.dim = Table("dim"),
                                   !.audit = Audited(TestsOf(built), failing)]
               /\ ran' = Append(ran, [command |-> "build", results |-> results]) /\ artifact' = inv
               /\ proc' = [proc EXCEPT ![p] =
                     [After(@, "dbt_models", Cardinality(built) = 2 /\ \A t \in TestsOf(built) : results[t] # "fail")
                         EXCEPT !.inv = inv]]
    /\ manifest' = code
    /\ UNCHANGED <<queue, raw, cached, code, site, submits, shells>>

\* dbt is stopped part-way: some models are replaced, some of their tests have run and
\* replaced their audit tables, and run_results.json is not written.
\* Bound: one of the tests it ran fails.
DbtDies(p) ==
    /\ At(p, "dbt_models") /\ Done(p, FALSE)
    /\ \E built \in SUBSET {m \in {"mart", "dim"} : Source[m] # 0} :
       \E tested \in SUBSET TestsOf(built) : \E failing \in SUBSET tested :
         /\ Cardinality(failing) <= 1
         /\ wh' = [m \in DOMAIN wh |-> IF m \in built THEN [inv |-> 0, data |-> Source[m]]
                                       ELSE IF m = "audit" THEN Audited(tested, failing) ELSE wh[m]]
         /\ ran' = Append(ran, [command |-> "killed", results |-> Results(built, tested, failing)])
    /\ manifest' = code
    /\ UNCHANGED <<queue, raw, cached, artifact, code, site, submits, shells>>

\* just dbt-unit-test: its results take the place of a build's.
DbtUnitTest(p) ==
    /\ At(p, "dbt_unit_test") /\ Done(p, TRUE)
    /\ ran' = Append(ran, [command |-> "test", results |-> <<>>]) /\ artifact' = Len(ran')
    /\ manifest' = code
    /\ UNCHANGED <<queue, raw, cached, wh, code, site, submits, shells>>

\* co2_intensity.run and retail_rfm.run, which refuses an empty dimension.
HasMart == wh.mart # Null

HasCustomers == wh.dim # Null /\ Books[wh.dim.data] # <<>>

HasSources == raw # [wdi |-> 0, book |-> 0]

Derive(p) ==
    /\ \/ /\ At(p, "co2_intensity") /\ HasMart
          /\ wh' = [wh EXCEPT !.co2 = [of |-> wh.mart.inv, data |-> wh.mart.data, rows |-> Ranks[wh.mart.data]]]
       \/ /\ At(p, "retail_rfm") /\ HasCustomers
          /\ wh' = [wh EXCEPT !.rfm = [of |-> wh.dim.inv, data |-> wh.dim.data, rows |-> Scores[wh.dim.data]]]
    /\ Done(p, TRUE)
    /\ UNCHANGED <<queue, raw, cached, artifact, ran, code, manifest, site, submits, shells>>

\* What they read is not there, and they raise.
CannotDerive(p) ==
    /\ \/ At(p, "co2_intensity") /\ ~HasMart
       \/ At(p, "retail_rfm") /\ ~HasCustomers
       \/ At(p, "pipeline_status") /\ ~HasSources
    /\ Done(p, FALSE)
    /\ UNCHANGED <<queue, raw, cached, wh, artifact, ran, code, manifest, site, submits, shells>>

\* append_frame: an invocation that is there already adds nothing.
\* Fault: the artifact is appended however often it is read.
Appended(history, inv) == IF inv = 0 THEN history ELSE Append(history, [inv |-> inv, rows |-> ran[inv]])

Recorded(history) == {history[i].inv : i \in DOMAIN history}

\* Fault: replaced, as the other three tables are.
OnlyTheLast(history, inv) == IF inv = 0 THEN history ELSE <<[inv |-> inv, rows |-> ran[inv]]>>

AppendFrame(history, inv) ==
    IF inv = 0 \/ inv \in Recorded(history) THEN history
    ELSE Append(history, [inv |-> inv, rows |-> ran[inv]])

\* pipeline_status.run: three tables replaced, then the history appended to.
PipelineStatus(p) ==
    /\ At(p, "pipeline_status") /\ HasSources
    /\ \E appends \in BOOLEAN :
         /\ wh' = [wh EXCEPT !.status = [sources |-> raw, tests |-> BuildTests(wh.audit),
                                         tables |-> {t \in {"mart", "dim", "co2", "rfm"} : wh[t] # Null}],
                             !.history = IF appends THEN AppendFrame(@, artifact) ELSE @]
         /\ Done(p, appends)
    /\ UNCHANGED <<queue, raw, cached, artifact, ran, code, manifest, site, submits, shells>>

-----------------------------------------------------------------------------
\* What each check finds; one that only warns or does not block passes either way.
RankIsDense(rows) ==
    /\ DOMAIN rows # {}
    /\ \A g \in {Loads[wh.co2.data].rows[c].group : c \in DOMAIN rows} :
         LET ranks == {rows[c] : c \in {c \in DOMAIN rows : Loads[wh.co2.data].rows[c].group = g}}
         IN Min(ranks) = 1 /\ Max(ranks) = Cardinality(ranks)

TiesTogether(rows) ==
    LET book == Books[wh.rfm.data] IN
    /\ \A c, d \in DOMAIN rows : /\ book[c].last = book[d].last => rows[c].r = rows[d].r
                                 /\ book[c].orders = book[d].orders => rows[c].f = rows[d].f
                                 /\ book[c].net = book[d].net => rows[c].m = rows[d].m
    /\ \A c \in DOMAIN rows : (rows[c].m = Null) = (book[c].net = Null) /\ (rows[c].m = Null) = (rows[c].total = Null)

AllPresent == raw.wdi # 0 /\ ~Loads[raw.wdi].missing

RecordsThisBuild == artifact \in Recorded(wh.history)

AllRendered == site.build.whole /\ site.build.docs

Passes(check) ==
    CASE check = "wdi_indicators_all_present" -> AllPresent
      [] check = "co2_intensity_rank_is_dense" -> RankIsDense(wh.co2.rows)
      [] check = "rfm_scores_do_not_split_ties" -> TiesTogether(wh.rfm.rows)
      [] check = "run_history_records_this_build" -> RecordsThisBuild
      [] check = "site_pages_all_rendered" -> AllRendered
      [] OTHER -> TRUE

Judge(p) ==
    /\ p \in Active /\ proc[p].at \in DOMAIN Checks
    /\ Done(p, Passes(proc[p].at) \/ proc[p].at \notin Blocking)
    /\ UNCHANGED <<queue, raw, cached, wh, artifact, ran, code, manifest, site, submits, shells>>

\* build_report.run: reports/build is emptied before anything else, and the tables are
\* extracted; strictly, so a missing one fails.
\* Fault: what the last build left stays.
NotEmptied == site.build

Emptied == NoBuild

SourcesStep(p) ==
    /\ At(p, "sources")
    /\ \E ok \in BOOLEAN :
         /\ ok => Null \notin {wh.mart, wh.dim, wh.co2, wh.rfm, wh.status}
         /\ site' = [site EXCEPT !.build = Emptied,
                       !.parquet = IF ok THEN [mart |-> wh.mart, dim |-> wh.dim, co2 |-> wh.co2, rfm |-> wh.rfm] ELSE @]
         /\ Done(p, ok)
    /\ UNCHANGED <<queue, raw, cached, wh, artifact, ran, code, manifest, submits, shells>>

\* evidence build adds to the directory, and exits 0 for a site that lacks a page.
Render(p) ==
    /\ At(p, "evidence_build")
    /\ \E whole, ok \in BOOLEAN :
         /\ site' = [site EXCEPT !.build.of = @ \cup {site.parquet}, !.build.whole = whole /\ ok]
         /\ Done(p, ok)
    /\ UNCHANGED <<queue, raw, cached, wh, artifact, ran, code, manifest, submits, shells>>

\* build_dbt_docs, into a target path of its own: run_results.json stays as it is.
\* Fault: into the build's.
OverTheBuild == ran' = Append(ran, [command |-> "docs", results |-> <<>>]) /\ artifact' = Len(ran')

OfItsOwn == UNCHANGED <<artifact, ran>>

DbtDocs(p) ==
    /\ At(p, "dbt_docs") /\ OfItsOwn
    /\ site' = [site EXCEPT !.build.docs = TRUE] /\ Done(p, TRUE)
    /\ UNCHANGED <<queue, raw, cached, wh, code, manifest, submits, shells>>

\* publish_to, SITE_ROOT read as it runs: nothing to copy when it is the build, a refusal
\* when one holds the other, before anything is deleted, or the served contents
\* replaced, by part of the site when the copy is cut short.
PublishTo(p) ==
    /\ At(p, "publish_to")
    /\ \E root \in {"same", "apart", "around"}, ok \in BOOLEAN :
         /\ (root = "same" => ok) /\ (root = "around" => ~ok)
         /\ site' = IF root # "apart" THEN site
                    ELSE [site EXCEPT !.served = [site.build EXCEPT !.whole = site.build.whole /\ ok]]
         /\ Done(p, ok)
    /\ UNCHANGED <<queue, raw, cached, wh, artifact, ran, code, manifest, submits, shells>>

\* A run is over once nothing is left of it, green or not.
\* Fault: only a green one leaves its place in the queue.
OverWhenGreen(p) == proc[p].at = "" /\ proc[p].left = {} /\ proc[p].lost = {}

Over(p) == proc[p].at = "" /\ proc[p].left = {}

\* live.yml saves its landing zone after a green materialize, on a runner of its own.
Caches(p) == proc[p].alone /\ proc[p].lost = {} /\ "ingest_by_year" \in ToSet(proc[p].steps)

Finish(p) ==
    /\ p \in Active /\ Over(p)
    /\ cached' = IF Caches(p) THEN raw ELSE cached
    /\ proc' = [proc EXCEPT ![p] = Idle]
    /\ UNCHANGED <<queue, raw, wh, artifact, ran, code, manifest, site, submits, shells>>

Advance(p) ==
    \/ Begin(p) \/ StepFails(p) \/ Load(p) \/ DbtModels(p) \/ DbtDies(p) \/ DbtUnitTest(p) \/ Derive(p) \/ CannotDerive(p)
    \/ PipelineStatus(p) \/ Judge(p) \/ SourcesStep(p) \/ Render(p) \/ DbtDocs(p) \/ PublishTo(p) \/ Finish(p)

Run == \E p \in Procs : Dequeue(p) \/ Advance(p)

Next == Submit \/ Deploy \/ Run \/ \E p \in Procs : Type(p)

\* The processes keep taking their steps, and the daemon keeps looking at its queue.
Fairness == WF_vars(Run)

Spec == Init /\ [][Next]_vars /\ Fairness

-----------------------------------------------------------------------------
\* The processes run steps of the graph, and the tables, the history and the site
\* have the shapes the code gives them.
TypeOK ==
    /\ \A p \in Procs :
         /\ proc[p].kind \in {"idle", "queued", "command", "recipe"}
         /\ proc[p].at # "" => IsNext(p, proc[p].at)
         /\ proc[p].lost \cap proc[p].left = {}
    /\ \A i \in DOMAIN queue : queue[i] \in {Jobs[j] : j \in DOMAIN Jobs}
    /\ raw.wdi \in 0 .. Len(Loads) /\ raw.book \in 0 .. Len(Books)
    /\ artifact \in 0 .. Len(ran) /\ \A i \in DOMAIN ran : ran[i].command \in {"build", "killed", "test"}

\* The run history holds each recorded dbt command once, with the results that very
\* command reported, and the site's own docs never become a run of it.
HistoryIsABatchPerCommand ==
    /\ \A i, j \in DOMAIN wh.history : wh.history[i].inv = wh.history[j].inv => i = j
    /\ \A i \in DOMAIN wh.history : wh.history[i].rows = ran[wh.history[i].inv]

\* Nothing a refresh does takes a batch from the history.
HistoryOnlyGrows == IsPrefix(wh.history, wh'.history)

\* The derived tables are what their module's docs define: ranks that start at one and
\* leave no gap, in the order of the ratios; scores that follow the value, not the row.
DerivedAreExact ==
    /\ wh.co2 # Null =>
         LET rows == Loads[wh.co2.data].rows
             rank == wh.co2.rows
             Peers(c) == {d \in DOMAIN rank : rows[d].group = rows[c].group}
         IN \A c \in DOMAIN rank :
              /\ {rank[d] : d \in Peers(c)} = 1 .. Max({rank[d] : d \in Peers(c)})
              /\ \A d \in Peers(c) : (rows[c].co2 * rows[d].gdp < rows[d].co2 * rows[c].gdp) <=> rank[c] < rank[d]
    /\ wh.rfm # Null =>
         LET book == Books[wh.rfm.data]
             score == wh.rfm.rows
         IN \A c, d \in DOMAIN score :
              /\ book[c].orders <= book[d].orders => score[c].f <= score[d].f
              /\ book[c].last <= book[d].last => score[c].r <= score[d].r
              /\ (Null \notin {book[c].net, book[d].net} /\ book[c].net <= book[d].net) => score[c].m <= score[d].m

\* The test table says of each test what dbt found when it last ran it, in a build that
\* ended or was stopped, and one that follows its own job's build lists only tests the
\* code still has.
LastVerdict(t) ==
    LET runs == {i \in DOMAIN ran : ran[i].command # "test" /\ t \in DOMAIN ran[i].results
                                    /\ ran[i].results[t] # "skipped"}
    IN ran[Max(runs)].results[t]

StatusTellsTheVerdicts ==
    wh'.status # wh.status =>
       /\ \A t \in DOMAIN wh'.status.tests : wh'.status.tests[t] = LastVerdict(t)
       /\ \A p \in Active : proc[p].at = "pipeline_status" /\ proc[p].inv # 0 => DOMAIN wh'.status.tests \subseteq code

\* What a job is about to publish, when nothing else ran beside it, is one extract of
\* the tables its own dbt build made, recorded in the run history, no derived table
\* empty; and no indicator is missing from it when the job loaded them itself or built
\* from the landing zone live.yml cached.  Over any other landing zone the job that
\* ingests nothing publishes what is there.
WhatIsPublishedWasJudged ==
    \A p \in Active : (proc[p].kind # "recipe" /\ proc[p].alone /\ proc[p].at = "publish_to") =>
        /\ site.build.docs /\ Cardinality(site.build.of) = 1
        /\ \A e \in site.build.of :
             /\ {e.mart.inv, e.dim.inv, e.co2.of, e.rfm.of} = {proc[p].inv}
             /\ proc[p].inv \in Recorded(wh.history) /\ DOMAIN e.co2.rows # {}
             /\ ("wdi_indicators_all_present" \in ToSet(proc[p].steps) \/ raw = cached) => ~Loads[e.mart.data].missing

\* With a directory of its own, the served site is replaced only by one built to its
\* end: a build that fails leaves it as it was.
ServedOutlivesAFailedBuild ==
    site'.served # site.served =>
       \E p \in Active : proc[p].at = "publish_to" /\ (proc[p].alone => site.build.docs)

\* A run from the queue is refused a file only by what a shell started beside it.
OnlyAShellContends == \A p \in Procs : proc[p].kind = "queued" /\ proc[p].denied => shells > 0

\* Every job submitted is started and ends, whatever failed in the runs before it.
QueuedRunsEnd == (queue # <<>>) ~> (queue = <<>> /\ \A p \in Procs : proc[p].kind # "queued")

\* The run history and the test table say what dbt said: each command's batch once and
\* for good, each test's latest verdict (db.append_frame, observability.build_tests).
StatusIsTrue == [][HistoryIsABatchPerCommand' /\ HistoryOnlyGrows /\ StatusTellsTheVerdicts]_vars

\* What is served was built to its end, from what its own job made and judged
\* (definitions.py's checks, build_report.run).
ServedWasJudged == [][WhatIsPublishedWasJudged' /\ ServedOutlivesAFailedBuild]_vars

\* The queue runs one job's steps at a time, so that none of its runs meets another
\* (deploy/dagster.yaml, definitions.py).
RunsKeepApart == TypeOK /\ OnlyAShellContends
=============================================================================
