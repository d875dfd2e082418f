----------------------------- MODULE LakeCatalog -----------------------------
(***************************************************************************)
(* The landing zone: where the environment puts its two halves             *)
(* (lake/lakehouse.py), and the catalog that says which rows each snapshot *)
(* reads and which files hold them (modern_data_stack/ducklake.py).  One   *)
(* person's environment is fixed; weather loads, rewrites of other tables, *)
(* expiries, a fixture run, a cached copy and a published copy happen in   *)
(* any order, on one shared store of files.  A file catalog admits one     *)
(* writer; a Postgres catalog admits a load beside an expiry.              *)
(***************************************************************************)
EXTENDS Integers, Sequences, FiniteSets, FiniteSetsExt, SequencesExt

CONSTANTS
    Days,           \* the days of weather a load can land, a set of naturals
    Values,         \* what upstream can say of a day
    Setups,         \* environments a person may have, what runs beside and for how
                    \* many snapshots (a bound)
    InlineLimit,    \* rows up to which a change is kept in the catalog itself
    MaxLost         \* bound: files a crashed load has left at one time

ASSUME LakeAssumption ==
    /\ Days \subseteq Nat \ {0} /\ IsFiniteSet(Days)
    /\ InlineLimit \in Nat /\ MaxLost \in Nat
    /\ \A e \in Setups : e = [dir |-> "work", catalog |-> e.catalog, schema |-> "lakehouse",
                              data |-> e.data, prefix |-> <<"s3">>, endpoint |-> e.endpoint,
                              beside |-> e.beside, snapshots |-> e.snapshots]

VARIABLES
    env,        \* the person's environment, and what runs beside them
    reachable,  \* whether the Postgres server answers
    lake,       \* what each catalog place holds
    disk,       \* the Parquet files in each data path
    landing,    \* the weather load in flight
    expiring,   \* how far the expiry in flight has got
    held        \* history: the weather rows after the last loads still kept

vars == <<env, reachable, lake, disk, landing, expiring, held>>

-----------------------------------------------------------------------------
\* Where the environment puts the catalog and the Parquet.

Usable(e) ==
    /\ e.catalog \in {"unset", "postgres"}
    /\ e.data # "notS3"
    /\ e.data = "bucket" => e.endpoint

IsRemoteCatalog(e) == e.catalog = "postgres"

MetadataSchema(e) == IF IsRemoteCatalog(e) THEN e.schema ELSE "main"

Catalog(e) ==
    IF IsRemoteCatalog(e) THEN <<"postgres", MetadataSchema(e)>> ELSE <<"file", e.dir>>

DataPath(e) == IF e.data = "bucket" THEN e.prefix ELSE <<e.dir>>

OnDisk(e) == e.data # "bucket"

Remote(e) == e.data # "unset" \/ e.catalog # "unset"

\* Fault: the fixture run keeps the person's metadata schema.
FixtureInTheSharedSchema(e) ==
    [e EXCEPT !.dir = "tmp", !.prefix = <<"s3", "test-pipeline">>]

FixtureEnv(e) ==
    [e EXCEPT !.dir = "tmp", !.prefix = <<"s3", "test-pipeline">>,
              !.schema = IF IsRemoteCatalog(e) THEN "test_pipeline_tmp" ELSE @]

\* A workflow's environment: everything on disk, in another directory.
CopyEnv == [dir |-> "copy", catalog |-> "unset", schema |-> "lakehouse",
            data |-> "unset", prefix |-> <<"s3">>, endpoint |-> FALSE]

Places ==
    {<<"file", d>> : d \in {"work", "tmp", "copy", "release"}}
        \cup {<<"postgres", s>> : s \in {"lakehouse", "test_pipeline_tmp"}}

-----------------------------------------------------------------------------
\* What a catalog records.  A file's rows are <<day, value>> pairs; "gone"
\* holds <<day, snapshot>> for each row deleted from it; "end" is 0 while some
\* row of it is live.  A file named 0 is inlined.

NoCatalog == [is |-> "nothing", path |-> <<>>, next |-> 1, snaps |-> {},
              files |-> {}, scheduled |-> {}]

NewCatalog(path) == [NoCatalog EXCEPT !.is = "lake", !.path = path]

Visible(f, s) == f.begin <= s /\ (f.end = 0 \/ s < f.end)

Rows(c, table, s) ==
    UNION {{[day |-> r[1], value |-> r[2], load |-> f.begin] :
               r \in {x \in f.rows : \A g \in f.gone : g[1] = x[1] => s < g[2]}} :
               f \in {x \in c.files : x.table = table /\ Visible(x, s)}}

Latest(c) == IF c.snaps = {} THEN 0 ELSE Max(c.snaps)

Weather(c) == Rows(c, "om_weather_daily", Latest(c))

\* Fault: two commits take the same id.
SnapshotReused(c) == [c EXCEPT !.snaps = @ \cup {c.next}]

Snapshot(c) == [c EXCEPT !.snaps = @ \cup {c.next}, !.next = @ + 1]

File(c, table, name, rows) ==
    [table |-> table, name |-> name, rows |-> rows, gone |-> {}, begin |-> c.next, end |-> 0]

\* A small change is kept in the catalog: such a "file" has the name 0.
Inlined(rows) == Cardinality(rows) <= InlineLimit

Deleted(f, days, s) ==
    LET hit == {r[1] : r \in f.rows} \ {g[1] : g \in f.gone}
        left == hit \ days
    IN IF left = {} THEN [f EXCEPT !.end = s]
       ELSE [f EXCEPT !.gone = @ \cup {<<d, s>> : d \in hit \cap days}]

\* dlt's merge: delete the rows whose key the load carries, insert the load.
MergedInto(c, name, rows) ==
    [Snapshot(c) EXCEPT !.files =
        {IF f.table = "om_weather_daily" /\ f.end = 0
            THEN Deleted(f, {r[1] : r \in rows}, c.next) ELSE f : f \in @}
          \cup {File(c, "om_weather_daily", name, rows)}]

Replaced(c, table, name) ==
    [Snapshot(c) EXCEPT !.files =
        {IF f.table = table /\ f.end = 0 THEN [f EXCEPT !.end = c.next] ELSE f : f \in @}
          \cup {File(c, table, name, {<<0, 0>>})}]

\* Fault: an expired snapshot's id is dropped, not carried to the next one.
SurvivingBegins(c, table) ==
    {f.begin : f \in {x \in c.files : x.table = table}} \cap c.snaps

\* The list without repeats, oldest first, is its set.
TableVersions(c, table) ==
    {Min({s \in c.snaps : s >= f.begin}) : f \in {x \in c.files : x.table = table}}

\* Its last two members, and its last "keep".
OneBefore(versions) == Max(versions \ {Max(versions)})

Newest(versions, keep) ==
    {v \in versions : Cardinality({w \in versions : w > v}) < keep}

\* Fault: dlt's own columns are compared too.
RevisionsWithLoads(c, table, since, until) ==
    LET new == Rows(c, table, until) \ Rows(c, table, since)
    IN {[day |-> r.day, value |-> r.value] : r \in new}

Revisions(c, table, since, until) ==
    LET Project(s) == {[day |-> r.day, value |-> r.value] : r \in Rows(c, table, s)}
    IN Project(until) \ Project(since)

\* The asset check's diff: the last two weather loads, if two are held.
WeatherRevisions(c) ==
    LET v == TableVersions(c, "om_weather_daily")
    IN IF Cardinality(v) < 2 THEN {}
       ELSE Revisions(c, "om_weather_daily", OneBefore(v), Max(v))

Expired(c, before) ==
    LET kept == {s \in c.snaps : s >= before}
        lost == {f \in c.files : \A s \in kept : ~Visible(f, s)}
    IN [c EXCEPT !.snaps = kept, !.files = @ \ lost,
                 !.scheduled = @ \cup ({f.name : f \in lost} \ {0})]

\* Fault: the loads are counted from one too late.
ExpiredOneTooMany(c, keep) ==
    LET weather == TableVersions(c, "om_weather_daily")
    IN IF Cardinality(weather) >= keep THEN Expired(c, Max(weather)) ELSE c

ExpiredTo(c, keep) ==
    LET weather == TableVersions(c, "om_weather_daily")
    IN IF Cardinality(weather) >= keep
       THEN Expired(c, Min(Newest(weather, keep))) ELSE c

Recorded(c) == ({f.name : f \in c.files} \ {0}) \cup c.scheduled

Under(path) == {f \in disk : IsPrefix(path, f.in)}

\* Files below the data path that this catalog never recorded.
Lost(c, e) == {f \in Under(DataPath(e)) : f.name \notin Recorded(c)}

\* Fault: a bucket is listed too, whatever else lies below the prefix.
OrphansAnywhere(c, e) == {f \in Under(c.path) : f.old /\ f.name \notin Recorded(c)}

Orphans(c, e) ==
    {f \in Under(c.path) : OnDisk(e) /\ f.old /\ f.name \notin Recorded(c)}

Cleaned(c, d) == {f \in d : f.in # c.path \/ f.name \notin c.scheduled}

-----------------------------------------------------------------------------
\* Opening a catalog.  DuckLake refuses a data path the catalog does not name.

Answers(e) == Usable(e) /\ (IsRemoteCatalog(e) => reachable)

\* Fault: DuckLake's check of the data path is gone.
AttachesAnywhere(e) == Answers(e)

Attaches(e) ==
    Answers(e) /\ (lake[Catalog(e)].is = "lake" => lake[Catalog(e)].path = DataPath(e))

Idle == [on |-> FALSE, cold |-> FALSE, name |-> 0, rows |-> {}]

Busy(e) == ~IsRemoteCatalog(e) /\ e = env /\ (landing.on \/ expiring # "no")

\* Whether the question "is there a catalog" is answered and not raised.
\* Fault: a database that does not answer holds nothing.
ProbedOrNothing(e) == Usable(e) /\ ~Busy(e)

Probed(e) == Answers(e) /\ ~Busy(e)

IsCatalog(e) == (IsRemoteCatalog(e) => reachable) /\ lake[Catalog(e)].is = "lake"

WeatherWatermark(e) ==
    LET newest == {r.day : r \in Weather(lake[Catalog(e)])}
    IN IF ~IsCatalog(e) \/ newest = {} THEN 0 ELSE Max(newest)

Used == (UNION {Recorded(lake[p]) : p \in Places}) \cup {f.name : f \in disk} \cup {landing.name}

FreshName == CHOOSE n \in 1 .. Cardinality(Used) + 1 : n \notin Used

Written(e, name) == [in |-> DataPath(e), name |-> name, old |-> FALSE]

-----------------------------------------------------------------------------
Init ==
    /\ env \in Setups
    /\ reachable = TRUE
    /\ lake = [p \in Places |-> NoCatalog]
    /\ disk = {} /\ held = <<>>
    /\ landing = Idle /\ expiring = "no"

\* dbt's ATTACH IF NOT EXISTS before the first ingest leaves an empty file.
DbtAttaches ==
    /\ Usable(env) /\ ~IsRemoteCatalog(env)
    /\ lake[Catalog(env)].is = "nothing"
    /\ lake' = [lake EXCEPT ![Catalog(env)].is = "blank"]
    /\ UNCHANGED <<env, reachable, disk, landing, expiring, held>>

\* A weather load: the watermark decides between a cold start and the lookback,
PlanLoad ==
    /\ landing = Idle /\ Probed(env)
    /\ lake[Catalog(env)].next <= env.snapshots
    /\ LET cold == WeatherWatermark(env) = 0
       IN \E days \in (SUBSET Days) \ {{}}, v \in Values :
            /\ cold => days = Days
            /\ landing' = [on |-> FALSE, cold |-> cold, name |-> 0,
                           rows |-> {<<d, v>> : d \in days}]
    /\ UNCHANGED <<env, reachable, lake, disk, expiring, held>>

\* dlt opens the catalog, creating it where there is none, and writes its file,
Upload ==
    /\ landing # Idle /\ ~landing.on /\ Attaches(env) /\ ~Busy(env)
    /\ LET name == IF Inlined(landing.rows) THEN 0 ELSE FreshName
       IN /\ landing' = [landing EXCEPT !.on = TRUE, !.name = name]
          /\ disk' = IF name = 0 THEN disk ELSE disk \cup {Written(env, name)}
    /\ lake' = IF lake[Catalog(env)].is = "lake" THEN lake
               ELSE [lake EXCEPT ![Catalog(env)] = NewCatalog(DataPath(env))]
    /\ UNCHANGED <<env, reachable, expiring, held>>

\* and commits it in one snapshot.
Merge ==
    /\ landing.on /\ Attaches(env)
    /\ LET c == lake[Catalog(env)]
           after == MergedInto(c, landing.name, landing.rows)
           now == {[day |-> r.day, value |-> r.value] : r \in Weather(after)}
       IN /\ lake' = [lake EXCEPT ![Catalog(env)] = after]
          /\ held' = Append(IF Len(held) = 2 THEN Tail(held) ELSE held, now)
    /\ landing' = Idle
    /\ UNCHANGED <<env, reachable, disk, expiring>>

\* The process dies or the database goes away: the file stays, unrecorded.
LoadFails ==
    /\ landing # Idle
    /\ landing.name = 0 \/ Cardinality(Lost(lake[Catalog(env)], env)) <= MaxLost
    /\ landing' = Idle
    /\ UNCHANGED <<env, reachable, lake, disk, expiring, held>>

\* Any other table's load: a snapshot that says nothing about weather.
Replace ==
    /\ landing = Idle /\ Attaches(env) /\ ~Busy(env)
    /\ lake[Catalog(env)].is = "lake" /\ lake[Catalog(env)].next <= env.snapshots
    /\ LET name == FreshName
       IN /\ lake' = [lake EXCEPT ![Catalog(env)] = Replaced(@, "owid_co2", name)]
          /\ disk' = disk \cup {Written(env, name)}
    /\ UNCHANGED <<env, reachable, landing, expiring, held>>

\* lakehouse.expire: snapshots, then the files only they read, then orphans.
StartExpiry(keep) ==
    /\ expiring = "no" /\ Probed(env) /\ IsCatalog(env) /\ Attaches(env)
    /\ lake' = [lake EXCEPT ![Catalog(env)] = ExpiredTo(@, keep)]
    /\ held' = IF Len(held) > keep THEN <<Last(held)>> ELSE held
    /\ expiring' = "expired"
    /\ UNCHANGED <<env, reachable, disk, landing>>

\* Fault: the expiry returns early where fewer loads are held than it keeps.
CleanupIfExpired ==
    /\ expiring = "expired" /\ Attaches(env)
    /\ LET c == lake[Catalog(env)] IN
       IF Cardinality(TableVersions(c, "om_weather_daily")) >= 2
       THEN /\ disk' = Cleaned(c, disk)
            /\ lake' = [lake EXCEPT ![Catalog(env)].scheduled = {}]
       ELSE UNCHANGED <<lake, disk>>
    /\ expiring' = "cleaned"
    /\ UNCHANGED <<env, reachable, landing, held>>

Cleanup ==
    /\ expiring = "expired" /\ Attaches(env)
    /\ disk' = Cleaned(lake[Catalog(env)], disk)
    /\ lake' = [lake EXCEPT ![Catalog(env)].scheduled = {}]
    /\ expiring' = "cleaned"
    /\ UNCHANGED <<env, reachable, landing, held>>

EndExpiry ==
    /\ expiring = "cleaned" /\ Attaches(env)
    /\ disk' = disk \ Orphans(lake[Catalog(env)], env)
    /\ expiring' = "no"
    /\ UNCHANGED <<env, reachable, lake, landing, held>>

ExpiryFails ==
    /\ expiring # "no"
    /\ expiring' = "no"
    /\ UNCHANGED <<env, reachable, lake, disk, landing, held>>

\* One whole run of lakehouse.expire, for the runs that nothing interrupts.
Expires(e, keep) ==
    /\ IsCatalog(e) /\ Attaches(e)
    /\ LET c == ExpiredTo(lake[Catalog(e)], keep)
       IN /\ lake' = [lake EXCEPT ![Catalog(e)] = [c EXCEPT !.scheduled = {}]]
          /\ disk' = Cleaned(c, disk) \ Orphans([c EXCEPT !.scheduled = {}], e)

-----------------------------------------------------------------------------
\* The fixture run (just test-pipeline): two loads, an expiry, its schema dropped.

FixtureLoad ==
    LET e == FixtureEnv(env)
        name == FreshName
    IN /\ env.beside = "fixture"
       /\ Attaches(e) /\ lake[Catalog(e)].next < 3
       /\ IsCatalog(e) \/ Under(DataPath(e)) = {}        \* mktemp: once per directory
       /\ LET c == IF IsCatalog(e) THEN lake[Catalog(e)] ELSE NewCatalog(DataPath(e))
          IN lake' = [lake EXCEPT ![Catalog(e)] =
                         MergedInto(c, name, {<<d, 0>> : d \in Days})]
       /\ disk' = disk \cup {Written(e, name)}
       /\ UNCHANGED <<env, reachable, landing, expiring, held>>

FixtureExpires ==
    /\ Expires(FixtureEnv(env), 2)
    /\ UNCHANGED <<env, reachable, landing, expiring, held>>

DropFixtureSchema ==
    LET e == FixtureEnv(env)
    IN /\ Answers(e) /\ IsRemoteCatalog(e) /\ MetadataSchema(e) = "test_pipeline_tmp"
       /\ lake[Catalog(e)].is = "lake"
       /\ lake' = [lake EXCEPT ![Catalog(e)] = NoCatalog]
       /\ UNCHANGED <<env, reachable, disk, landing, expiring, held>>

-----------------------------------------------------------------------------
\* A cache restored elsewhere (pages.yml), relinked before anything writes to it.

CopyLake ==
    /\ env.beside = "copy"
    /\ Usable(env) /\ ~Remote(env) /\ ~Busy(env)
    /\ lake[Catalog(env)].is = "lake" /\ lake[Catalog(CopyEnv)].is = "nothing"
    /\ lake' = [lake EXCEPT ![Catalog(CopyEnv)] = lake[Catalog(env)]]
    /\ disk' = disk \cup {[f EXCEPT !.in = DataPath(CopyEnv)] : f \in Under(DataPath(env))}
    /\ UNCHANGED <<env, reachable, landing, expiring, held>>

Relink ==
    /\ ~Remote(CopyEnv) /\ lake[Catalog(CopyEnv)].is = "lake"
    /\ lake' = [lake EXCEPT ![Catalog(CopyEnv)].path = DataPath(CopyEnv)]
    /\ UNCHANGED <<env, reachable, disk, landing, expiring, held>>

CopyExpires ==
    /\ Expires(CopyEnv, 1)
    /\ UNCHANGED <<env, reachable, landing, expiring, held>>

\* The release's catalog: a new one, holding the rows of the published tables.
\* Fault: a copy of the catalog with the other tables taken out.
FilteredDown(c, name) ==
    [c EXCEPT !.path = <<"release">>, !.files = {f \in @ : f.table = "om_weather_daily"}]

Published(c, name) ==
    LET new == NewCatalog(<<"release">>)
        rows == {<<r.day, r.value>> : r \in Weather(c)}
    IN IF \A f \in c.files : f.table # "om_weather_daily" THEN new
       ELSE [Snapshot(new) EXCEPT !.files =
                {File(new, "om_weather_daily", name, rows)}]

Publish ==
    /\ env.beside = "release"
    /\ Usable(env) /\ ~Remote(env) /\ Probed(env) /\ Attaches(env) /\ IsCatalog(env)
    /\ LET name == FreshName
           built == Published(lake[Catalog(env)], name)
       IN /\ lake' = [lake EXCEPT ![<<"file", "release">>] = built]
          /\ disk' = {f \in disk : f.in # <<"release">>}
                        \cup {[in |-> <<"release">>, name |-> f.name, old |-> FALSE] :
                                 f \in built.files}
    /\ UNCHANGED <<env, reachable, landing, expiring, held>>

-----------------------------------------------------------------------------
\* A load's own step takes less than the day an orphan is given.
DayPasses ==
    /\ ~landing.on /\ \E f \in disk : ~f.old /\ f.name \notin Recorded(lake[Catalog(env)])
    /\ disk' = {[f EXCEPT !.old = TRUE] : f \in disk}
    /\ UNCHANGED <<env, reachable, lake, landing, expiring, held>>

DatabaseGoesOrComes ==
    /\ IsRemoteCatalog(env)
    /\ reachable' = ~reachable
    /\ UNCHANGED <<env, lake, disk, landing, expiring, held>>

FixtureRun == FixtureLoad \/ FixtureExpires \/ DropFixtureSchema

Next ==
    \/ DbtAttaches \/ PlanLoad \/ Upload \/ Merge \/ LoadFails \/ Replace
    \/ (\E keep \in {1, 2} : StartExpiry(keep)) \/ Cleanup \/ EndExpiry \/ ExpiryFails
    \/ FixtureRun \/ CopyLake \/ Relink \/ CopyExpires \/ Publish
    \/ DayPasses \/ DatabaseGoesOrComes

Spec == Init /\ [][Next]_vars

-----------------------------------------------------------------------------
TypeOK ==
    /\ env \in Setups /\ reachable \in BOOLEAN
    /\ expiring \in {"no", "expired", "cleaned"}
    /\ \A p \in Places :
         /\ lake[p].is \in {"nothing", "blank", "lake"}
         /\ lake[p].snaps \subseteq 1 .. lake[p].next - 1
         /\ \A f \in lake[p].files : f.begin < lake[p].next /\ (f.end = 0 \/ f.begin < f.end)
    /\ \A f \in disk : f.old \in BOOLEAN
    /\ Len(held) <= 2

\* Whatever snapshot of a catalog that opens still exists, the files it reads
\* are on disk: expiry, its cleanup and its orphans, a load in flight beside
\* it, a prefix nested in another and a copy not yet relinked take none of
\* them (ducklake.expire, lakehouse.expire, relink).
ReadableIsOnDisk ==
    \A p \in Places : lake[p].path # <<"work">> \/ p[2] # "copy" =>
        \A f \in lake[p].files :
            f.name = 0 \/ [in |-> lake[p].path, name |-> f.name] \in
                             {[in |-> d.in, name |-> d.name] : d \in disk}

\* A table reads, at every snapshot that still exists, as it did at the last
\* version table_versions names up to there: no change to it goes unnamed,
\* also where the snapshot that made it has expired (ducklake.table_versions).
VersionsAreTheChanges ==
    \A p \in Places, table \in {"om_weather_daily", "owid_co2"} :
        LET c == lake[p]
            before(s) == {v \in TableVersions(c, table) : v <= s}
        IN \A s \in c.snaps :
             IF before(s) = {} THEN Rows(c, table, s) = {}
             ELSE Rows(c, table, s) = Rows(c, table, Max(before(s)))

\* The last two versions table_versions names read as the weather was after
\* the last two loads, and the diff between them is what the second restated,
\* however many snapshots were expired and whatever else was written
\* (table_versions, revisions, weather_revisions_are_derivable).
LastLoadsAreDiffable ==
    LET c == lake[Catalog(env)]
        v == TableVersions(c, "om_weather_daily")
    IN /\ Cardinality(v) >= Len(held)
       /\ (Len(held) = 2 =>
             /\ WeatherRevisions(c) = held[2] \ held[1]
             /\ Revisions(c, "om_weather_daily", Max(v), OneBefore(v)) = held[1] \ held[2])

\* A load plans a cold start only where no weather is held: a database that
\* does not answer, a locked catalog or an empty file beside the rows is never
\* read as "nothing loaded yet" (weather_watermark, is_catalog).
ColdStartOnlyWhenEmpty ==
    landing.on /\ landing.cold => held = <<>>

\* An expiry that runs to its end leaves only files some kept snapshot reads,
\* nothing waiting to be deleted from an interrupted one, and on disk no file
\* older than the grace that the catalog never recorded.
ExpiryLeavesNothing ==
    [][EndExpiry =>
         LET c == lake'[Catalog(env)] IN
         /\ \A f \in c.files : \E s \in c.snaps : Visible(f, s)
         /\ c.scheduled = {}
         /\ OnDisk(env) =>
              \A d \in disk' : d.in = DataPath(env) /\ d.old =>
                  \E f \in c.files : f.name = d.name]_vars

\* The fixture run never changes the person's catalog or files, and nothing
\* else changes the fixture run's (just test-pipeline, drop_fixture_schema).
FixtureKeepsApart ==
    LET e == FixtureEnv(env)
        In(path, d) == {f.name : f \in {x \in d : x.in = path}}
    IN IF FixtureRun
       THEN /\ lake'[Catalog(env)] = lake[Catalog(env)]
            /\ In(DataPath(env), disk) = In(DataPath(env), disk')
       ELSE /\ lake'[Catalog(e)] = lake[Catalog(e)]
            /\ In(DataPath(e), disk) = In(DataPath(e), disk')

\* A published catalog can show the latest rows of the published tables and
\* nothing else, at whatever version it is read (ducklake.publish).
PublishedHoldsOnlyTheLatest ==
    Publish =>
      LET c == lake'[<<"file", "release">>]
          Shown(s) == UNION {f.rows : f \in {x \in c.files : Visible(x, s)}}
          now == {<<r.day, r.value>> : r \in Weather(lake[Catalog(env)])}
      IN (\A s \in c.snaps : Shown(s) \subseteq now) /\ Shown(Latest(c)) = now

\* Every snapshot that still exists reads what it read when it was made: its files are on
\* disk, and between two named versions no row changed (ducklake.expire, table_versions).
SnapshotsStayReadable == TypeOK /\ ReadableIsOnDisk /\ VersionsAreTheChanges

\* Neither a fixture run nor a release shares a row or a file with the landing zone
\* that it should not (just test-pipeline, drop_fixture_schema, ducklake.publish).
CopiesKeepApart == [][FixtureKeepsApart /\ PublishedHoldsOnlyTheLatest]_vars
=============================================================================
