------------------------------- MODULE WdiIngest -------------------------------
(***************************************************************************)
(* Loading the World Bank's indicators (ingest/sources/worldbank.py through*)
(* ingest/http.py), as the groups ingest/pipeline.py's load_groups makes   *)
(* and over the years orchestration/assets.py takes from the run's config. *)
(* The publisher republishes while pages are being asked for, its caches   *)
(* serve old copies, with their country codes or without, and a load may   *)
(* fail after some indicators arrived.                                     *)
(***************************************************************************)
EXTENDS Integers, Sequences, FiniteSets, FiniteSetsExt

CONSTANTS
    Order,          \* WB_WDI_INDICATORS, in the order the generator yields
    FirstYear,      \* WDI_FIRST_YEAR
    LastYear,       \* bound: the last year the calendar reaches
    StartYear,      \* the year the behaviour begins in
    Horizon,        \* [code |-> the years past today its series has values for]
    Ahead,          \* the years past today a whole series has rows for
    Lookback,       \* WDI_LOOKBACK_YEARS
    PerPage,        \* WB_PER_PAGE, in years of one series
    StalePerPage,   \* WB_STALE_RETRY_PER_PAGE
    Retries,        \* http.RETRIES
    MaxTroubles,    \* bound: transient errors, in a behaviour
    MaxEditions,    \* bound: editions of a series
    MaxLoads,       \* bound: loads
    Configs         \* the YearRange configs a run may be given; 0 is unset

Codes == {Order[i] : i \in DOMAIN Order}
Calendar == FirstYear .. LastYear + Ahead

ASSUME WdiAssumption ==
    /\ Order \in Seq(Codes) /\ Codes # {} /\ FirstYear \in Nat \ {0} /\ StartYear \in FirstYear .. LastYear
    /\ LastYear \in Nat /\ Ahead \in Nat /\ Horizon \in [Codes -> Int]
    /\ {Lookback, PerPage, StalePerPage, Retries} \subseteq Nat \ {0}
    /\ {MaxTroubles, MaxLoads} \subseteq Nat /\ MaxEditions \in Nat \ {0}
    /\ Configs \subseteq Nat \X Nat

VARIABLES
    today,      \* the current year
    edition,    \* [code |-> the number of the edition the origin holds]
    table,      \* raw.wb_wdi: [code |-> [year held |-> [edition, coded]]]
    marks,      \* the watermarks dlt committed; 0 is none
    load,       \* the running load: its years, and whether it drops the table first
    fetch,      \* [code |-> where its thread is]
    advanced,   \* the resource state the generator is changing
    pc,         \* "idle", "extract"
    yielded,    \* how many codes the generator has yielded
    loads, troubles

vars == <<today, edition, table, marks, load, fetch, advanced, pc, yielded, loads, troubles>>

-----------------------------------------------------------------------------
\* YearRange.years: <<>> is the lookback, <<first, last>> a range.
RangeRefused(first, last) ==
    \/ first = 0 /\ last # 0
    \/ first # 0 /\ LET end == IF last = 0 THEN first ELSE last
                    IN ~(FirstYear <= first /\ first <= end /\ end <= today)

YearsOf(first, last) ==
    IF first = 0 THEN <<>> ELSE <<first, IF last = 0 THEN first ELSE last>>

FullRefresh == {"wb_country"}
Incremental == {"wb_wdi", "ecb_fx_rates"}
FullReloads == {"wb_wdi", "ecb_fx_rates"}

\* load_groups: what each group loads, and whether its tables are dropped first.
\* Fault: the flag is heeded on a run that loads only part of the table.
NotPartial(wanted, flags, partial) == FALSE

ReloadRefused(wanted, flags, partial) == partial /\ flags \cap FullReloads \cap wanted # {}

LoadGroups(wanted, flags) ==
    LET reloading == flags \cap FullReloads
        groups == {[names |-> (FullRefresh \cup reloading) \cap wanted, refresh |-> TRUE],
                   [names |-> (Incremental \ reloading) \cap wanted, refresh |-> FALSE]}
    IN {g \in groups : g.names # {}}

\* wdi_start_year; without a watermark, the whole series.
StartOf(mark) == IF mark = 0 THEN FirstYear ELSE Max({FirstYear, mark - Lookback + 1})

\* The years one request asks for: wb_wdi's window, as wdi_url spells it.  A range
\* the wrong way round the API ignores, and answers with the whole series.
Window(c) ==
    IF load.years # <<>> THEN load.years[1] .. load.years[2]
    ELSE IF load.drop \/ marks[c] = 0 \/ StartOf(marks[c]) > today THEN FirstYear .. today + Ahead
    ELSE StartOf(marks[c]) .. today

-----------------------------------------------------------------------------
\* One thread's request: how large its pages are, the page it wants, the editions
\* its pages' meta named, and the rows so far.

NoRequest == [state |-> "asking", per |-> PerPage, page |-> 1, tries |-> 0, metas |-> {}, rows |-> <<>>]

Pages(c, per) == (Cardinality(Window(c)) + per - 1) \div per

PageYears(c, per, page) ==
    LET first == Min(Window(c)) + (page - 1) * per
    IN Window(c) \cap (first .. first + per - 1)

\* The rows that carry a value: a series may be a year behind, or projected ahead.
Valued(c, rows) == {y \in DOMAIN rows : y <= today + Horizon[c]}

\* _is_stale and _mixed_editions.
\* Fault: each page is judged only by its rows.
NeverMixed(f) == FALSE
MixedEditions(f) == Cardinality(f.metas) > 1

\* Fault: a copy with no country codes is as good as any.
NeverStale(f) == FALSE
IsStale(f) == DOMAIN f.rows # {} /\ \A y \in DOMAIN f.rows : ~f.rows[y].coded

Complete(f) == ~MixedEditions(f) /\ ~IsStale(f)

\* After the last page: the rows, another request at the other page size, or an error.
\* Fault: a stale copy is asked for again until it is not.
AskedUntilFresh(f) ==
    IF Complete(f) THEN [f EXCEPT !.state = "got"] ELSE [NoRequest EXCEPT !.per = StalePerPage]

Judged(f) ==
    IF Complete(f) THEN [f EXCEPT !.state = "got"]
    ELSE IF f.per = PerPage THEN [NoRequest EXCEPT !.per = StalePerPage]
    ELSE [f EXCEPT !.state = "raised"]

-----------------------------------------------------------------------------
NoLoad == [years |-> <<>>, drop |-> FALSE]

Init ==
    /\ today = StartYear /\ edition = [c \in Codes |-> 1]
    /\ table = [c \in Codes |-> <<>>] /\ marks = [c \in Codes |-> 0]
    /\ load = NoLoad /\ fetch = [c \in Codes |-> NoRequest] /\ advanced = marks
    /\ pc = "idle" /\ yielded = 0 /\ loads = 0 /\ troubles = 0

\* The World Bank revises a series; the year turns.
Publish(c) ==
    /\ edition[c] < MaxEditions
    /\ edition' = [edition EXCEPT ![c] = @ + 1]
    /\ UNCHANGED <<today, table, marks, load, fetch, advanced, pc, yielded, loads, troubles>>

NewYear ==
    /\ pc = "idle" /\ today < LastYear
    /\ today' = today + 1
    /\ UNCHANGED <<edition, table, marks, load, fetch, advanced, pc, yielded, loads, troubles>>

\* raw_by_year_assets, and pipeline.main without a config: the groups are made
\* first, and the one that holds wb_wdi starts extracting.
StartLoad ==
    /\ pc = "idle" /\ loads < MaxLoads /\ loads' = loads + 1
    /\ \E config \in Configs, flags \in SUBSET FullReloads,
          wanted \in {{"wb_wdi"}, FullRefresh \cup Incremental} :
         LET years == YearsOf(config[1], config[2])
             group == CHOOSE g \in LoadGroups(wanted, flags) : "wb_wdi" \in g.names
         IN IF RangeRefused(config[1], config[2]) \/ ReloadRefused(wanted, flags, years # <<>>)
            THEN UNCHANGED <<load, pc>>
            ELSE load' = [years |-> years, drop |-> group.refresh] /\ pc' = "extract"
    \* dlt's refresh clears the resource's state along with its table.
    /\ advanced' = IF load'.drop THEN [c \in Codes |-> 0] ELSE marks
    /\ UNCHANGED <<today, edition, table, marks, fetch, yielded, troubles>>

\* The run is over: what it was holding goes with it.
EndLoad ==
    /\ pc' = "idle" /\ load' = NoLoad /\ yielded' = 0
    /\ fetch' = [c \in Codes |-> NoRequest] /\ advanced' = marks'

\* A page of the edition the origin holds, or of an older one a cache kept.  Each page
\* is a URL cached on its own, and a cached copy has its country codes or, as the World
\* Bank has served an old edition, has every one of them empty.
Page(c) ==
    LET f == fetch[c] IN
    /\ pc = "extract" /\ f.state = "asking"
    /\ \E e \in 1 .. edition[c], coded \in BOOLEAN :
         LET got == [y \in PageYears(c, f.per, f.page) |-> [edition |-> e, coded |-> coded]]
             rows == [y \in DOMAIN f.rows \cup DOMAIN got |->
                        IF y \in DOMAIN got THEN got[y] ELSE f.rows[y]]
             more == [f EXCEPT !.metas = @ \cup {e}, !.rows = rows, !.tries = 0]
         IN /\ e = edition[c] => coded
            /\ fetch' = [fetch EXCEPT ![c] =
                           IF f.page < Pages(c, f.per) THEN [more EXCEPT !.page = @ + 1] ELSE Judged(more)]
    /\ UNCHANGED <<today, edition, table, marks, load, advanced, pc, yielded, loads, troubles>>

\* get_json: a transient error is tried again, RETRIES requests in all; another
\* refusal is raised at once.
PageFails(c) ==
    /\ pc = "extract" /\ fetch[c].state = "asking" /\ troubles < MaxTroubles
    /\ troubles' = troubles + 1
    /\ \/ fetch[c].tries + 1 < Retries /\ fetch' = [fetch EXCEPT ![c].tries = @ + 1]
       \/ fetch' = [fetch EXCEPT ![c].state = "raised"]
    /\ UNCHANGED <<today, edition, table, marks, load, advanced, pc, yielded, loads>>

\* The latest observed year, never past today.
\* Fault: a projected year is observed too.
Unclamped(c, rows) == IF Valued(c, rows) = {} THEN advanced[c] ELSE Max(Valued(c, rows) \cup {advanced[c]})

Observed(c, rows) ==
    IF Valued(c, rows) = {} THEN advanced[c]
    ELSE Min({Max(Valued(c, rows) \cup {advanced[c]}), today})

\* Which loads move a watermark.
\* Fault: a backfill moves it too.
AnyLoad == TRUE

MovesTheMark == load.years = <<>>

\* wb_wdi yields the codes in order, each when its thread is done.
Yield ==
    /\ pc = "extract" /\ yielded < Len(Order)
    /\ LET c == Order[yielded + 1] IN
         /\ fetch[c].state = "got"
         /\ advanced' = IF MovesTheMark THEN [advanced EXCEPT ![c] = Observed(c, fetch[c].rows)] ELSE advanced
    /\ yielded' = yielded + 1
    /\ UNCHANGED <<today, edition, table, marks, load, fetch, pc, loads, troubles>>

\* Merged on WDI_PRIMARY_KEY, into an empty table after a refresh.
Merged(c) ==
    LET held == IF load.drop THEN <<>> ELSE table[c]
    IN [y \in DOMAIN held \cup DOMAIN fetch[c].rows |->
          IF y \in DOMAIN fetch[c].rows THEN fetch[c].rows[y] ELSE held[y]]

\* dlt commits the rows and the resource state together.
Land ==
    /\ pc = "extract" /\ yielded = Len(Order)
    /\ table' = [c \in Codes |-> Merged(c)] /\ marks' = advanced
    /\ EndLoad
    /\ UNCHANGED <<today, edition, loads, troubles>>

\* The first code the generator waits for that raised fails the load, and nothing
\* that was yielded before is kept.  Fault: the watermarks are.
MarksOfAFailedLoad == advanced

KeptMarks == marks

LoadFails ==
    /\ pc = "extract" /\ yielded < Len(Order) /\ fetch[Order[yielded + 1]].state = "raised"
    /\ marks' = KeptMarks
    /\ EndLoad
    /\ UNCHANGED <<today, edition, table, loads, troubles>>

Process == Yield \/ Land \/ LoadFails \/ \E c \in Codes : Page(c) \/ PageFails(c)

Next == NewYear \/ StartLoad \/ Process \/ \E c \in Codes : Publish(c)

\* A running load keeps running: a request is answered or errs, and its threads and
\* the generator take their steps.
Fairness == WF_vars(Process)

Spec == Init /\ [][Next]_vars /\ Fairness

-----------------------------------------------------------------------------
\* The table's rows, the watermarks and the threads have the shapes the code gives
\* them, and no watermark is past today.
TypeOK ==
    /\ today \in StartYear .. LastYear /\ edition \in [Codes -> 1 .. MaxEditions]
    /\ \A c \in Codes : DOMAIN table[c] \subseteq Calendar
    /\ {marks, advanced} \subseteq [Codes -> 0 .. today]
    /\ \A c \in Codes : fetch[c].state \in {"asking", "got", "raised"} /\ fetch[c].tries < Retries
    /\ pc \in {"idle", "extract"} /\ yielded \in 0 .. Len(Order)
    /\ loads \in 0 .. MaxLoads /\ troubles \in 0 .. MaxTroubles

\* Every year up to an indicator's watermark is in the table: the lookback never
\* starts past a hole, whatever failed, was backfilled or was dropped before.
NoHoleBelowAWatermark ==
    \A c \in Codes : FirstYear .. marks[c] \subseteq DOMAIN table[c] \/ marks[c] = 0

\* A routine load after the first asks only from its lookback on: no watermark makes
\* it ask for a range that runs backwards, which would fetch every series whole.
LookbackIsNarrow ==
    \A c \in Codes : (pc = "extract" /\ load.years = <<>> /\ ~load.drop /\ marks[c] # 0) =>
        Window(c) \subseteq StartOf(marks[c]) .. today

\* Every year a load asks for of an indicator lands from one edition, whatever pages of
\* others the caches had, and not with every country code empty.  The edition may be an
\* old one, and some of its pages may come without their codes.
LandsOneEdition ==
    \A c \in Codes : table'[c] # table[c] =>
       LET landed == {table'[c][y] : y \in Window(c)}
       IN /\ \A row \in landed, other \in landed : row.edition = other.edition
          /\ \E row \in landed : row.coded

\* Only a full reload over every year takes rows away, and it leaves the whole series.
OnlyAWholeLoadDrops ==
    \A c \in Codes : ~(DOMAIN table[c] \subseteq DOMAIN table'[c]) =>
       load.drop /\ FirstYear .. today \subseteq DOMAIN table'[c]

\* Every load ends, landed or failed, however often the World Bank errs, republishes
\* or serves an old copy.
LoadsEnd == (pc = "extract") ~> (pc = "idle")

\* A watermark is never past today, no year below it is missing from the table, and a
\* routine load asks from its lookback on (wb_wdi, wdi_url).
WatermarksAreSafe == TypeOK /\ NoHoleBelowAWatermark /\ LookbackIsNarrow

\* A load changes an indicator's rows to those of one edition, not all without their
\* codes, and takes rows away only where it brings the whole series
\* (_fetch_wdi_indicator, load_groups).
LandsWhole == [][LandsOneEdition /\ OnlyAWholeLoadDrops]_vars
=============================================================================
