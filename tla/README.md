# A verification project for the data stack

The repository is a small batch data platform: dlt loads public statistics into
a DuckLake landing zone, dbt builds a DuckDB warehouse from it, Polars adds two
derived tables, Evidence renders a site, Dagster orchestrates, and GitHub
Actions publishes a data release a month. This directory holds TLA+ modules
that model the parts with behaviour worth checking, TLC configurations that
check them on small instances, and TLAPS proofs of what matters most.

Paths below are the repository's, relative to its root.

## 1. Inventory

What makes this system hard is not concurrency inside one process (most of it is
a sequential batch program) but state that outlives a run and can never be made
again (the weather archive, the dbt snapshots, the run history), remote services
that answer as they like, and multi-step jobs that may stop anywhere.

| Component | State | Operations | Hard behaviour | What makes it correct |
|---|---|---|---|---|
| Rate limiter (`src/modern_data_stack/ratelimit.py`) | a deque of charges | `acquire`, `charge` | several windows at once, requests larger than a budget, one sleep without a second look | no window overspent, one sleep is enough, no needless wait or refusal |
| Weather fetch (`ingest/sources/weather.py`, `get_weather_json`, `om_weather_daily`) | attempt counter, the process's limiter, answers collected so far | affordability check, paced attempts, retries, one yield | every kind of refusal, timeouts of unknown outcome, other tenants on the same address, waits that outlast CI | it ends, all or nothing, never over budget when alone, never asleep for a day |
| Weather archive (same file, `weather_windows`, `_weather_rows`, and the dlt merge) | `raw.om_weather_daily` and the watermark read from it | routine load, backfill | preliminary values revised months later, days still arriving, loads across midnight, pauses and failures, backfills behind or past the watermark | no preliminary value frozen, no complete row overwritten by one still arriving, no row lost |
| Release workflow (`.github/workflows/release-data.yml`, `publish/compare_releases.py`) | the GitHub releases and their assets; one job's runner | carry, re-fetch, build, package, verify, compare, publish | failure at any step, same-day replacement, typed tags, uploads that stop half way | carried state only grows, drops are accepted by a person |
| Carried state (`publish/restore_history.py`, `src/modern_data_stack/history.py`, `lake/lakehouse.py` restore) | tables of the warehouse file, the landing zone directory | `run`, `restore`, `preflight` | refusals after something was written, a crash between remove, copy and relink | one that ends well is complete, an interrupted one can be repeated, no row is lost without `--force` |
| Lake catalog (`lake/lakehouse.py`, `src/modern_data_stack/ducklake.py`) | snapshots, data files | `expire`, `publish`, `revisions`, `relink` | expiry counted in loads, files shared between snapshots, orphans | the pair the weather check diffs survives, no live file is deleted |
| Other ingest (`ingest/sources/*`, `ingest/pipeline.py`, `ingest/http.py`) | per-indicator watermarks in dlt state, the retail cache | loads, full reloads, backfills | caches of different ages, watermarks committed with the load, flags left set | rows of one edition, no watermark past rows never landed |
| Export (`publish/export_warehouse.py`, `src/modern_data_stack/export.py`, `privacy.py`) | the export directory | snapshot, prepare, compact, manifest, sums | a step failing between | what is published was prepared |
| Run history (`transform/pipeline_status.py`, `observability.py`, `db.py`) | `analytics.pipeline_runs`, `run_results.json` | append once a run | the results file is overwritten by every dbt command | each run once, under its own name |
| Orchestration (`orchestration/`) | the run queue | six jobs and a schedule | command-line loads outside the queue | one writer at a time |
| Live and site workflows (`live.yml`, `pages.yml`, `publish/build_report.py`) | the landing-zone cache, the served directory | build live or from the cache, publish | a cache of another day, a directory emptied while served | the site is built from data that was judged |
| Agent (`agent/`) | the message history of one question | rounds of tool calls | the bound on rounds | every result the answer cites was read |
| Polars transforms (`transform/`) | two derived tables | rank, score | ties, nulls, empty frames | ranks dense, scores by value |
| dbt models, reports | none of their own | whole-table rebuilds | — | dbt's own tests |

Interactions: the archive's load calls the fetch, which calls the limiter; the
release job restores the landing zone and the warehouse, then runs a routine
load (and, asked to, a backfill) on top; the orchestration starts the same loads;
the live workflow caches the landing zone the site workflow builds from.

`PROJECT.json` lists every component with its status and every hazard with its
line; a hazard without a property says what is planned for it.

## 2. Plan

Modules, in the order they were written. Those that interact are composed: one
module instantiates another, or takes over the part another one promises.

1. `WindowLimiter`: the limiter and the protocol of its one caller. It is also
   the abstract specification of what a load may do with the limiter.
   `WindowLimiterProofs`.
2. `WeatherFetch`: one load's requests; instantiates 1 and is checked to
   implement it (`UsesTheLimiter`). `WeatherFetchProofs`.
3. `WeatherArchive`: what the loads make of the archive over many days;
   `WeatherArchiveProofs`.
4. `ReleaseChain`: the release job, from release to release; `ReleaseProofs`, which also
   holds the proofs about 5 and 8, what a job carries and what it packages.
5. `CarryForward`: restores step by step, with refusals, crashes, `--force` and
   loads beside them. `ReleaseChain`'s Carry is what it promises of an empty runner.
6. `LakeCatalog`: the landing zone's places, snapshots, files, expiry and copies;
   `LakeCatalogProofs`.
7. `WdiIngest`: the World Bank's editions, pages and watermarks, under the groups and
   flags of `load_groups`; `WdiIngestProofs`.
8. `ExportCopy`: the published copy and live.yml's, and what a failing step leaves.
9. `AssetRefresh`: the asset graph, its checks, the queue, the run history, the derived
   tables and the site, which 7 and 3 feed and 8 packages; `AssetRefreshProofs`.
10. `AgentTools` and `Agent`: the tools as functions of a warehouse, and the loop, the
    server and the builds around them; `AgentProofs`.

Left for later: the refinement between `ReleaseChain`'s Carry and `CarryForward`;
`WeatherArchive` composed with the budget, for the load whose range is more than a day's
budget; a second relation per kind in `ReleaseChain`, for losses that cancel out.

## 3. The modules

Every action is one call, request or workflow step of the code with everything
that call changes. `map` in `PROJECT.json` gives the lines of each definition.
Operators commented `Fault:` are plausible bugs of the definition they precede;
nothing uses them except the check that each property can fail.

### WindowLimiter

`spent` is the deque, a sequence of `[at, units]`. `Acquire(units)` is `acquire`:
trim, the longest wait over the windows (`Delay`, from `WindowDelay`), one sleep,
no second look. `Refuse` is `WaitTooLong`. `Charge` is the request and the charge
after it. `history` (auxiliary) is the deque that was never trimmed, against which
the properties count. Time is integral, which removes the float tolerance
`_DRAIN_TOLERANCE`; the tolerance exists for rounding only. What a window counts is a
running total over the sequence, written as a recursive function so that it can be proved
about.

### WeatherFetch

`plan` is one load: the units of each yearly request and whether it is a backfill.
`RefuseRange`/`BeginLoad` are `check_weather_range_is_affordable`; `Acquire` and
`GiveUpWaiting` the limiter's two ends; `Served`, `FailAtOnce` and `WorthARetry` an attempt's
outcomes, each charged; `Retry` the wait for the kind of refusal; `Yield` the single yield.
The numbers of the instance are the code's: 600, 5,000 and 10,000 units, six attempts, the
waits of a 429, 643 units a year for 41 capitals, in half seconds so that the 1.5 s backoff
is whole. How often a load is answered otherwise than with rows is bounded by its plan's
`faults`. `AffordableLoadsFit` holds for two wasted attempts and not for three: two requests
that hang, the hourly wait they bring about and one hourly refusal after it take a six-year
backfill past the workflow's 75 minutes.

Open-Meteo is external and nondeterministic: it answers anything, bills a request
when it arrives or when it is answered, and may or may not bill one that died.
Every attempt is a step of the limiter's protocol through the refinement mapping
`granted <- IF pc = "calling" THEN Cost ELSE 0`.

### WeatherArchive

`archive[c][d]` is the row of a country and a day, abstracted to four levels: no
row, partly null, complete but preliminary, final. `published` is what Open-Meteo
serves now; it may change a day until the day settles (`SettleLag`). `StartRoutine`
computes the range from the table-wide watermark or a cold start; `StartBackfill`
takes whole years and ignores the watermark; `Fetch` is one yearly request, so the
answers of one load may be days apart; `Commit` applies the held-back edge and the
merge; `Abandon` is a load that failed anywhere. A day may pass between any two
steps. The calendar has years of three days so that ranges cross years in five days of
behaviour; a day that no load of the behaviour can still ask for is not published.

The catalogue of constants separates what the code sets (`Lookback`, `EndLag`,
`EdgeDays`, `ColdYears`) from what Open-Meteo does (`SettleLag`, `Levels`).
`SettleAssumption` states the relation the code's comment relies on: values settle
within the lookback. `JumpAhead` says whether a backfill may end past the watermark.

### ReleaseChain

One job at a time (`concurrency: release-data`), on a fresh runner. A run is known by the
job that recorded it; the weather archive is the stretches it holds, one for each day of the
model. `built` is the runner's state: the warehouse as a set of runs, the landing zone as a
set of stretches, and the manifest: for each published table the years it has rows of, whose
number is its row count and whose first and last are its span. `Carry`, `Refetch`, `Build`,
`Package`, `Verify` and `Compare` are the workflow's steps in order. `Refetch` is the
dispatch's `weather_years`. `Build` brings the archive up to the day, from the newest stretch
it holds or from a cold start (`Fetched`), and publishes any of `Builds`, in which the tables
named by `Weather` show the landing zone as it is (`Tabulated`): an archive that was lost is
a shorter table. `Compare` judges as `compare_manifests` does (`Lost`): a table both
manifests have, and that is not exempt, is dropped by more than `MaxDrop` percent of its rows or
narrowed at either end; added and removed tables are reported and lose nothing
(`LOSS_VERDICTS`). `Fail` is any step failing; `Delete` and `Upload` are
`gh release upload --clobber`, asset by asset; `Interrupt` is a runner or an API lost between
two of them, which the auxiliary `interrupted` remembers. GitHub is external: `listed` is the
order releases were created in, and the newest listed is what the next job carries from. A
typed tag may name an older release, a later day, or nothing in the `data-` series; what is
published there is not carried on, which is why `published` and `standing` (both auxiliary)
follow the newest release only.

Left out: the checksum and storage-version checks of the verify step (they read one build, and
are part of `Fail`), the notes, and a second relation per database in what Verify counts.

### CarryForward

One machine, one warehouse file, one landing zone directory. `Start` is `run` as far as
its preflight, `CarryTable` one turn of `_restore_tables`, `Unpack` the second preflight
and the look at what the archive held, `RemoveLake`, `Copy` and `Relink` the three steps of
`lakehouse.restore`, `Crash` a stop at any of them: in the two that move files it leaves
any part of the directory. Between restores an operator loads, builds, cleans and deletes
by hand, in any order. `lake.path` is the directory the catalog names, which DuckLake
compares on every attach: a copy that was not relinked is there and cannot be opened.
`dlt` is the state directory on the machine; with the state of a finished load and none
of dlt's tables in the catalog the next load fails, as `_refuse_warm_state` says. Rows
are told apart by where they were made, so that a lost row and a replaced one show.

Loads also run between the steps of a restore: nothing prevents it. `beside` remembers that
one did, since it breaks what the preflights are for: `LandedDaysStay`,
`NextLoadFindsItsTables` and `ReadableIsWhole` are promised without it only, and fail with it.
Days landed after the second preflight go with the directory; and `shutil.rmtree` takes files
in any order, so that a stop within it can leave a catalog that opens and names those days
without their Parquet. A load over such a catalog fails where it merges into the weather
table, and a count of it is an error (`Preflight`, `Unpack`). A load that meets a restore
within `shutil.rmtree` or `copytree` is not modelled: each is one step towards a load, though
not towards a crash. `Releases` is the set of files an operator may name: seven of the 48
combinations of table kinds and archives in the runs, any in the proofs.

### LakeCatalog

The environment of one person decides the *places*: a catalog is a file or a Postgres
schema (`Catalog`), its Parquet a directory or a bucket prefix (`DataPath`); `Usable`,
`Remote` and `Probed` are the refusals. `lake` holds each place's catalog: its snapshots,
and data files with the snapshots they begin and end at, as DuckLake keeps them (a change
of `InlineLimit` rows stays in the catalog: a file without a name). `TableVersions` and
`Revisions` are `ducklake.py`'s; the list of versions, without repeats and oldest first, is
its set. A load is `PlanLoad`, `Upload`, `Merge`; an expiry
`StartExpiry`, `Cleanup`, `EndExpiry`; each may stop between. A Postgres catalog admits a
load beside an expiry, a file does not (`Busy`). Beside one person's loads goes one of: the
fixture run with its own schema and prefix (nested in the person's), a cached copy that is
relinked and expired as `pages.yml` does, a release. `DatabaseGoesOrComes` is a server
that stops answering. A file is older than the orphan grace once `DayPasses` since
it was written, which is when `delete_orphans` may take it.

### WdiIngest

`table` holds of each indicator which edition each year's row is of, `marks` the watermarks
dlt committed with the last load, `advanced` the ones the generator is moving. `Page` is one
page of one indicator's thread: of the edition the origin holds, or of any earlier one a cache
kept. Each page is a URL cached on its own, so an old edition comes page by page with its
country codes or with every one of them empty. `PageFails` is `http.get_json`'s retry; `Judged` what `_fetch_wdi_indicator` makes of the pages: rows, one retry at the other
page size, or an error. The generator yields in the order of the codes (`Yield`); the first
that raised fails the load (`LoadFails`), else dlt commits rows and state together (`Land`).
`StartLoad` takes the run's year range (`RangeRefused`, `YearsOf`) and the full-reload flags
(`ReloadRefused`). A series may be projected years ahead or be a year behind (`Horizon`).

What lands is one edition, not the newest one: an old edition that every page is served from
passes `_mixed_editions`, and passes `_is_stale` with its codes on one page alone. So
`LandsOneEdition` says no more than that the rows are of one edition and not all without codes.

### ExportCopy

Of a database file it keeps, for each relation, whether it is a view or a table, what a view
reads, whether its description survived, and what its identifying column holds: clear ids,
nulls, pseudonyms, pseudonyms of pseudonyms, or the hash of the salt alone. One action per
step of `export` and `prepare_published_copy`, with `copier.trouble` what that attempt meets
(no salt, no landing zone, an empty or remote one, too new a format, a warehouse that was
rewritten already); `Die` may come between any two, and the next attempt runs over what
lies there, after another build or not. The live copy runs the same steps at
`artifact/warehouse.duckdb`, and `UploadCopy` takes what is at that path.

### AssetRefresh

A process is the list of its steps, the set of those it has left, the one it is at, and the
steps it lost: it takes the first it has left (`IsNext`), Dagster skips what is downstream of
a failure or of a blocking check (`After`), a recipe stops. `Jobs` and `Recipes` are those of `definitions.py` and the justfile. `queue` is
Dagster's, which starts one run (`MayDequeue`); recipes and `dagster job execute` are typed
beside it, `publish_site_from_raw` over whatever the landing zone holds. Opening the warehouse file to write while another process has it open fails
(`Busy`), as DuckDB's lock does. `DbtModels` writes the marts and `run_results.json`
(`artifact`), which `DbtUnitTest` overwrites and `PipelineStatus` appends from (`AppendFrame`).
Each test replaces its audit table as it runs, so a build that is killed part-way (`DbtDies`)
leaves some models, some audit tables and no results; `ran` has it too. `code` is the tests of
the code and `manifest` those `manifest.json` lists: `Deploy` drops a test from the code, and
every dbt command, and a job typed in a shell, writes the manifest anew. `BuildTests` scores the
audit tables of the manifest's tests, so `just pipeline-status` may still list a dropped test.
That the file is missing is not modelled: `just setup` writes it first. `SourcesStep`, `Render`, `DbtDocs` and `PublishTo` are
`build_report.run`'s; each may fail part-way, and the served directory is the build
directory, apart from it, or around it. `Ranked`, `Quintiles` and `Scored` are the Polars
frames over small books and loads, null values and ties included.

### AgentTools and Agent

`AgentTools` has no state: `ResultOf(bounds, rows, call)` is what a tool returns from a
warehouse, where the dates it compares by and the rows it adds up may come from two editions
of the file; exact fractions are pairs (`Fraction`). A result is its kind, its note and its
figures as printed; `detail` is what the figures are made of and only the properties read it.
A bridge's amounts and points are rounded each on its own (`Printed`, `Rounded`: to
`MoneyStep` and `PointStep`, half to even), so that its printed lines need not add up to its
printed change: they do to half a step for each line, while the amounts behind them add up
exactly (`BridgeIsWhole`).
`Agent` has `ask`'s locals (`loop`), the MCP server's request (`server`), each caller's tool
call (`at`: opened, bounds read), the open connections and the warehouse file, which a build
locks and replaces. The model is external: it calls anything in `Asked`, with or without ids,
or what is no tool, or answers with any figures, notes quoted or not, or fails.

## 4. Runs

| Run | What it shows | Bounds |
|---|---|---|
| `limiter` | no window overspent, one sleep enough, no wait or refusal longer or harsher than needed | four requests of 1, 2 or 4 units against budgets 3, 5 and 8: the widest window holds four of the narrowest, one cost exceeds the narrowest budget, and the pauses reach past each window |
| `weather` | the budget as Open-Meteo counts it, the workflow's timeout, termination, all-or-nothing, the limiter's protocol, with the real numbers | nine shapes of load: seven from empty to sixteen years, either side of affordable, with two attempts wasted on what costs most; one year with every other answer worth a retry, and two of server errors, each with faults enough to exhaust the six attempts |
| `archive` | no preliminary value is frozen, no complete row is overwritten by one still arriving, no row is lost | one country, five days, years of three, lookback two, all four levels, settling as late as the lookback allows, backfills of either year behind the watermark |
| `release` | carried state only grows, drops are accepted, the run history survives uploads that stop | three jobs over two days, found with no release, an old one or a whole one; typed tags of the older and the later day (any tag in the theorems); three builds: everything, one with years missing in the middle and the weather table gone, one a year narrower with the exempt table nearly empty; a drop of 30 % allowed |
| `release_half_uploaded` | violated: not only a release cut before the landing zone was published is taken for one | the same, no tags typed |
| `carry_forward` | a restore that ends well is complete, an incomplete landing zone cannot be read, no row is lost without `--force` and no landed day at all, loads work afterwards | two tables, seven releases; any number of restores, loads, builds and deletions |
| `lake` | snapshots stay readable, the last two loads diffable, an outage never looks empty, an expiry leaves nothing, fixture runs and releases keep apart | two days, two values, up to three snapshots, one lost file, ten environments with one thing beside each |
| `wdi` | watermarks pass no hole, what lands is whole and of one edition, loads end | two indicators over three years, two editions, two loads, one transient error, pages of three years and then of two, five year ranges |
| `export` | a directory whose checksums pass is prepared, a finished one is what its manifest says | two staging views, three tables, one view, three attempts, every trouble |
| `live_copy` | violated: a copy that was not made is uploaded | the same |
| `refresh` | the history and the verdicts are true, what is served was judged, queued runs keep apart and end, derived tables exact | two processes, two starts: of both site jobs from the queue, and of `load_retail` and three recipes from a shell; three loads, two books, one dropped test, one failing test at a time |
| `agent` | conversations whole, answers backed, one warehouse per call, figures agree, questions end | three rounds, three calls, one build, three editions of three small years; some 700 server requests before and after a question, one kind beside it; money and points printed whole, so that amounts and percentages in between round |

Most properties are conjunctions of named parts: `SnapshotsStayReadable`, say, is
`ReadableIsOnDisk` and `VersionsAreTheChanges` with the module's `TypeOK`, each stated and
explained where it is defined. `TypeOK` of `WeatherArchive` and
`ReleaseChain` and `RestoreTypeOK` of `CarryForward` are proved and in no run of their own.

The two violated runs are disagreements between the code and its own words; `findings` in
`PROJECT.json` quotes each. A same-day re-release that stops after the old
`lakehouse.tar.gz` is deleted leaves a release the next job takes for one cut before the
landing zone was published, so it carries no weather archive and starts again at the cold
start; the comparison then sees the shorter weather tables, and the job ends green only if the
archive was no longer than that or the drop is accepted. And live.yml uploads the copy that
could not be made.

Deadlock is checked in `weather` and `carry_forward`. In the first, a load that ended
stutters explicitly: with `RunsDown` it shows that a load cannot stop before its end; the
operator of the second can always start over. The other configurations turn it off because
their behaviours end at a named bound (requests, days, jobs, snapshots, attempts, loads,
starts, calls), where the system would go on.

### Fairness

`WdiIngest`, `AssetRefresh` and `Agent` assume weak fairness of the steps of a process that
was started, and of nothing else: `WF_vars(Process)` (the pool's threads and the generator,
whose requests have timeouts), `WF_vars(Run)` (the in-process executor, the recipes and
the queue's daemon), `WF_vars(LoopStep)` (`ask`, whose chat request has a timeout and whose
tools never wait: a locked warehouse is a reply). Loads, submissions, deployments, requests,
builds and questions are not fair, and no property relies on them. A process or daemon that
is killed for good is not modelled; then nothing of it ends.

A weather load's termination is shown without fairness, by a measure that every step
decreases (`RunsDown`) together with the absence of deadlock. Nothing schedules a next load
or a next release that a property could rely on: the Dagster schedule is off by default, and
a failed release waits for the next month.

### Scaling

Not all of the archive's constants are scaled alike: with the real 90 days a
behaviour could not be enumerated, so the runs keep the order of the constants
(settling no later than lookback plus lag, an edge shorter than the lookback, a year
longer than the edge) and the proofs cover the rest. In `wdi` a lookback of two years is
shorter than the calendar and longer than the year a series is behind; pages hold less than
a full series, so that it can mix editions, and more than the lookback's.

### Observations

What the models showed beside the properties, each by a run with one constant or condition
changed:

- A backfill that ends past the watermark moves it: the next load's lookback starts after
  days that were preliminary when last loaded, and they stay so. `SettledDaysAreCurrent`
  fails with `JumpAhead = TRUE`, against the comment at `ingest/sources/weather.py:90`.
- A backfill of last year in the first days of January meets days still arriving and holds
  nothing back, against `_weather_rows`' docstring (`weather.py:528`); the next routine loads
  mend it, which is why `EdgeNeverOverwrites` speaks of routine loads.
- A restore refused over its second table has replaced the first (`history.py:173`;
  `tests/test_restore_history.py:326` calls a refusal a promise that nothing happened).
- `run_history_records_this_build` reads the results file when it runs: a dbt command typed
  between a job's build and its check is what is compared. `WhatIsPublishedWasJudged` and
  `ServedOutlivesAFailedBuild` are promised of a job nothing ran beside (`alone`).
- `just materialize-site-from-raw` has no ingest step and so no `wdi_indicators_all_present`: after a
  `full_refresh` that failed that check it serves a site with the indicator missing.
- `publish_to` copies before `site_pages_all_rendered` judges, and a copy cut short leaves the
  served directory torn: what is promised is that only a build that ran to its end is copied.
- `render` says its indented bars sum to the line above them (`agent/bridge.py:407`); as printed
  they do to their rounding only (`docs/FINANCE_AGENT.md:49`, +1,956.8k over +2,735.1k and -778.4k).
- `_fetch_wdi_indicator` raises rather than land rows `stg_wdi` would drop
  (`ingest/sources/worldbank.py:213-215`). Where the caches hold an old edition whose pages differ
  in their country codes, one page with codes hides the empty ones of the others: the years of
  those pages land without codes, over complete rows too.
- `unverified` looks for an answer's figures in the results' text, not in their notes: the
  days of a quoted coverage note are flagged.
- `call_tool` answers ValueError, TypeError and DuckDB's errors. A year of `1e999` is JSON's
  infinity and raises OverflowError past it.

## 5. Proofs

### WindowLimiter

`WindowLimiterProofs` proves, from `LimitsAssumption` and `CallerAssumption` (any finite set of
windows and budgets, any costs, latencies, pauses and longest wait), every property of the
`limiter` run: `BudgetsAreEnforced` (`Spec => []NoWindowIsOverspent`), `SleepOnce`
(`Spec => []OneSleepIsEnough`), `RefusalsAreHopeless` (`Spec => []RefusedOnlyWhenHopeless`) and
`WaitsAreNotTooLong` (`Spec => NoLongerThanNeeded`); `InvariantHolds` is what they rest on.

The invariant adds three things to types and the budgets themselves. Charges are in the order
of their times (`Deque`). The deque is the history without its oldest charges, none of which
any window counts any more (`Remembers`): a window counts the same in both. A request that
was let through has room in every window, or the window is empty (`HasRoom`). The wait a
window asks for ends when the decisive charge leaves it, the last one that has to go for the
request to fit (`IsDecisive`). The longest of the waits is enough for all the windows, since
waiting longer never makes a window fuller, and no longer than needed, since the window that
asks for it is too full a moment before. What is said of a running total by induction over
the sequence is proved by descent: a set of positions at which it fails would have a least
one.

### WeatherArchive

`WeatherArchiveProofs` proves four theorems for all values of the constants that
satisfy `ArchiveAssumption` and `SettleAssumption`.

- `TypeCorrect`: `Spec => []TypeOK`.
- `NothingFreezes`: assuming `~JumpAhead`, `Spec => []SettledDaysAreCurrent`, for
  every calendar, lookback, lag and set of countries.
- `RowsAreOnlyReplaced`: `Spec => NoDayIsLost`, backfills past the watermark included.
- `EdgeIsHeldBack`: `Spec => EdgeNeverOverwrites`, backfills or not.

The argument for `NothingFreezes`: a row is current once a routine load ran after its
day settled, but that says nothing of a load still running, whose answers are older
than its commit. The inductive invariant `IInv` adds to it what every load relies on
(`LoadInv`): nothing is stored past the end of the last routine load, so the watermark
is no later than that end; hence a running load that found rows starts no later than
the first day that had not settled by the last one; and what it was answered for a day
that had settled when it began is still what Open-Meteo serves, since a settled day no
longer changes. At a commit (`CompleteAnswersLand`) a complete answer is never in the
held-back edge, so it lands; days before the load's start were settled earlier and keep
their row. `JumpAhead` breaks the first conjunct. The run has one country; that the watermark
is the table's and not a country's is in the theorem, whose countries are any set.

`EdgeIsHeldBack` needs a count (`EdgeIsCounted`): an edge that is not held back holds
more than `EdgeDays` partly null days, all among the answers.

### WeatherFetch

`WeatherFetchProofs` proves, from `FetchAssumption` alone, `AllOrNothingAlways`
(`Spec => []AllOrNothing`) and `RunsDownAlways` (`Spec => RunsDown`). The invariant says
that the answered requests are the first ones of the plan in order, that an attempt
that is out has a request to be for, and that a retry is one that is left. The measure
counts four steps for every attempt the plan still allows; an answered request takes
all its attempts off, a retry one, and every other step moves `pc` down.

`LoadsUseTheLimiter` (`Spec => UsesTheLimiter`) is the refinement: every step of a load is one
of the limiter's or leaves it alone. It needs that there are no more charges than attempts
(the abstract specification is bounded by their number) and that a wait begins when an attempt
ends, where the limiter's pauses begin (`PaceInv`). Through it the theorems of
`WindowLimiterProofs`, instantiated as `Paced`, hold of the load's own limiter, and
`AloneIsNeverRefused` (`Spec => []WithinTheBudgets`) carries that over to Open-Meteo's tally:
a request is billed no later than the limiter charges it and at most once, so from now on no
window counts more billed than charged (`BillInv`).

### ReleaseChain

`ReleaseProofs` proves, from `ReleaseAssumption`:

- `TypeCorrect`: `Spec => []TypeOK`.
- `NothingIsDropped`: `Spec => []CarriedStateOnlyGrows`. Until an upload stops half way, a job
  holds everything published from its carry on, because the newest release did; while it
  replaces the newest release's assets that release may hold less, and when it is done
  they are what it built (`ChainInv`).
- `NoDropUnaccepted`: `Spec => DropsAreAccepted`, for any tables, any of them exempt or read off
  the landing zone, and any percentage. Between jobs the newest release's manifest is the one
  that stands, so the release a job compares with, which is the newest one when it carries,
  is what a reader finds; jobs run one at a time, so it still is when the job compares, and the
  verdicts hold until the upload is done (`VolumeInv`). A table whose span is not narrowed
  has, for every year it had, one no later and one no earlier. A table that one release leaves
  out is compared with nothing when it comes back: the property is of two releases in a row.
- `HistorySurvives`: `Spec => RunsAreInherited`, interrupted uploads included. The
  invariant (`HistoryInv`) is weaker: a release that has a warehouse at all has the whole
  history in it, and one that has none stops the next job. The landing zone has no such
  guard, which is the violated run `release_half_uploaded`.

### CarryForward

`ReleaseProofs` proves, from `CarryAssumption` (any sequence of carried tables, any
releases):

- `RestoreTypeCorrect`, and `RevisionsAreKept` (`RestoreSpec => RevisionsStay`), which needs
  types only.
- `DoneBringsTheRelease`: `RestoreSpec => DoneMeansCarried`, with loads beside the restore. The
  invariant (`BringsInv`) says which tables hold the release's version while the loop
  runs (`OnePassed`), that all do after it (`AllPassed`), and that a landing zone waiting
  to be relinked is the release's: no load can open it to change it.
- `LandedDaysAreKept` and `LoadsGoOn`. While no load ran beside a restore, the first
  preflight finds no dlt state and none is made until the restore ends; the second finds
  no rows, and none come before the directory is removed (`KeepsInv`).
- `ReadableLakesAreWhole` (`RestoreSpec => []ReadableIsWhole`), wherever a restore is stopped, as
  long as no load ran beside one: what is removed was counted empty, so a catalog the removal
  leaves holds no days; a copied catalog cannot be opened until it is relinked, and it waits
  for that with its Parquet beside it (`WholeInv`).

### ExportCopy

`ReleaseProofs` proves `TrustedCopiesArePrepared` (`ExportSpec => []TrustedIsPrepared`) from
`ExportAssumption`, for any tables, staging views and views over them, any identifiers, and
whatever an attempt meets. The invariant (`PreparedInv`) follows the file an attempt works on:
until it is verified every relation is as the build left it or on its way, its identifiers
clear or rewritten once (`Shape`); while they are rewritten no staging view is left; and what
`verify` passes is `Prepared`, which compacting and replacing the file keep. A stop
leaves the file where it was, but the next attempt starts from a new snapshot and the checksums
are of files that were ready. The proof needs one more assumption on the constants: no table
is named as the landing zone is.

`FinishedExportsAreDescribed` (`ExportSpec => []ManifestDescribesWhatShips`) is about the same
attempts: what an attempt has written so far is of the file it works on, and what an earlier
one left is not counted until it is written again (`ManifestInv`).

### WdiIngest

`WdiIngestProofs` proves, from `WdiAssumption` (any indicators, orders, horizons, lookbacks and
page sizes), `WatermarksStaySafe` (`Spec => []WatermarksAreSafe`) and `LoadsLandWhole`
(`Spec => LandsWhole`). The invariant follows a load from its pages to its commit (`TypeInv`,
`FetchInv`, `IdleInv`, `MarksInv`): a thread that asks for a page has exactly the rows of the
pages before it, each of an edition those pages named; what it hands to the generator is a
whole range of one edition, not all without country codes; the range of a run lies in the past and leaves out nothing above a watermark;
and the years up to a watermark, those the generator has moved included, are in the table or
will be by the commit that makes the watermark durable (`WillHold`).

### LakeCatalog

`LakeCatalogProofs` proves every property of the `lake` run, from `LakeAssumption`, which names
the person's own directory, schema and prefix and leaves the rest open: any days and values, any
inlining limit, any number of lost files, and any environments with anything beside them.

- `SnapshotsAreReadable` (`Spec => []SnapshotsStayReadable`), `LoadsAreDiffable`
  (`Spec => []LastLoadsAreDiffable`), `ColdStartsFindNothing` (`Spec => []ColdStartOnlyWhenEmpty`).
- `ExpiryIsComplete` (`Spec => ExpiryLeavesNothing`) and `CopiesStayApart`
  (`Spec => CopiesKeepApart`), about steps.

All rest on `InvariantHolds`, whose invariant has four parts.

- `PlacesInv`: every catalog is `Sound`, and lies where its environment puts it. `Sound` says
  that each file is read by some kept snapshot, that a change a kept snapshot shows is named
  there by a file begun no earlier, and that no two files share a name and none is scheduled for
  deletion that is read. The middle one is the strengthening: the versions of a table are computed
  from the files that are left, and expiry takes files away; without it the invariant would not
  say that the change of a version that is kept is still told by a file.
- `DiskInv`: what a catalog reads is on disk in its home. That one catalog's cleanup takes no file
  of another's follows from `HomesDiffer`: no two places have one home. A copy's is its own
  directory from the start, though its catalog names the original's until it is relinked.
- `StepInv`: a load's uploaded file is in no catalog and too young to be an orphan
  (`IsAwaited`), so that an expiry beside it leaves it; after a cleanup nothing is
  scheduled.
- `HeldInv`: the last two versions of the weather read as the table was after the last two loads
  (`IsHeld`). An expiry ends at a version, so what it keeps, one load or two, reads as before.

### AssetRefresh

`AssetRefreshProofs` proves, from `RefreshAssumption` (any loads and books of whole numbers, any
processes, any jobs the UI may submit and any commands a shell may type), with `TypesHold`
(`Spec => []TypeInv`) under all of it:

- `QueuedRunsKeepApart`: `Spec => []RunsKeepApart`. While nothing was typed in a shell, at most
  one process is active and none was refused a file (`OneAtATime`): a step of an active process
  starts no other, and the daemon starts one when none is.
- `HistoryTellsTheTruth`: `Spec => StatusIsTrue`. What a test's audit table holds is what the
  latest build that ran the test found, ended or killed, whatever wrote `run_results.json` after
  it (`AuditsAreTheLatest`), and a batch of the history is of a command that was run
  (`HistoryIsOfRuns`). A build that skips a test leaves both its table and its last verdict.
  The tests listed after a job's own build are the code's, since that build wrote the manifest
  and the code does not change under a run (`BuiltFromTheCode`).
- `DerivedTablesAreExact`: `Spec => []DerivedAreExact`. The tables are always the frames'
  functions of some load or book (`Tables`, part of the types), so that the rest is about
  functions. Ranks: the place of a number in a finite set of numbers rises with it
  (`PlacesRise`) and leaves no gap (`PlacesAreDense`, by descent), and a ratio scaled by
  `KgPerMt` orders rows as their cross products do (`RatioOrder`). Scores: the cut points are
  whole numbers (`QuantileIsWhole`), and a greater value is above every cut a smaller one is above
  (`QuintilesRise`). Finite sets have extremes (`GreatestOf`), again by descent on their size.
- `WhatIsServedWasJudged`: `Spec => ServedWasJudged`. Every job, and the recipe that builds the
  site, is a stretch of one line of steps (`Turn`, `Stretch`), so the step at hand has the least
  turn of those left. `Above` is a recursive function: it exists because the steps beyond a
  step, the least set closed under what its members wait for, satisfy its equation (`BeyondIs`);
  hence each step on the path from the load to the publication is before `publish_to`, and
  losing one of them loses the publication (`PathIsBefore`, `AfterMoves`). While the site is
  still to be published, what follows a step that is left is then left too (`PathIsLeft`). For a
  run that nothing ran beside, the invariant (`Told`) gives for each step on the path that is no
  longer left what it made: the marts of this build and its results file, ranks of these marts
  and not empty, a batch in the history, one extract, one build of it, the docs in it. Its
  indicators were judged if the job has the check and it is neither to come nor lost
  (`LoadWasJudged`). A job that ingests nothing has no such check: what it publishes lacks no
  indicator if the landing zone is the one `live.yml` cached, which a finished, judged run left
  (`ServedInv`); over another, a `full_refresh` whose check failed say, it publishes what is
  there, and nothing is claimed. That the order is needed shows in the
  steps themselves: each would undo what the later ones made, if one of these were done before.

### Agent

`AgentProofs` proves, from `AgentAssumption` (any tools' results, requests, questions and bounds;
`Null` is no request), with `TypesHold` (`Spec => []TypeInv`):

- `OneBuildIsRead`: `Spec => []OneWarehousePerCall`. A connection is open exactly while its call
  runs, and while one is no build holds the file (`ReadInv`): so no build ends between the
  bounds and the rows.
- `EveryCallIsAnswered`: `Spec => []ConversationIsWhole`. The invariant (`HistoryInv`) says what
  the history looks like in the middle of a reply, where calls are taken in turn: of those of
  the last reply a first part is taken, all of these but the running one are answered, and the
  ones to come still have the id their server gave, or none (`Paired`). An id given is the
  call's place in the history; one made up is the number of the call among all that were told,
  which is why two never meet: the number grows with every call, in this reply or an earlier
  one. Counting the calls told and those to come gives the calls made. In the last round nothing
  runs, so the model's message stays the last.
- `EveryAnswerIsBacked`: `Spec => []AnswerIsBacked`. Notes and figures kept are those of the
  results in the history, notes without repeats (`Told`); a sequence restricted to some of its
  places holds what it held there (`AtPlacesHolds`), and first occurrences lose nothing
  (`FirstPlaces`).

What a tool computes is left open: these three hold of any `Results`.

### Model-checked only

- `AffordableLoadsFit` is about the instance's numbers (600, 5,000 and 10,000 units, 75
  minutes): it is false of most others.
- `FiguresAgree`, a scenario's and a table's figures as printed and a bridge's to the rounding of
  its lines, compares the tools' sums, medians and windows with what they are made of, which
  needs induction over the lines.
- Liveness under fairness, and `ENABLED`: `LoadsEnd`, `QueuedRunsEnd`, `LoopEnds`.

## 6. Not modelled

dbt's SQL and the report pages are whole-table computations without state or order. ECB,
Eurostat and OWID replace a whole table in one load; the retail workbook is a cached file
renamed when it is whole, and merged by line. `scripts/` records fixtures. Utilities (paths,
environment, workbook parsing) are pure functions. Within what is modelled: SQL text, wording,
layout and logging; remote catalogs in a restore; GitHub's cache keys; year spans beside row
counts in a release comparison; killed Dagster runs and daemons.
