----------------------------- MODULE ReleaseChain -----------------------------
(***************************************************************************)
(* The monthly data release (.github/workflows/release-data.yml) and the   *)
(* state it hands from release to release.  A job on a fresh runner        *)
(* carries the previous release's run history and weather archive in       *)
(* (publish/restore_history.py), rebuilds the warehouse, packages,         *)
(* verifies and compares it, and uploads it under the day's tag, or one    *)
(* typed into the dispatch.  Jobs run one at a time; one whose tag exists  *)
(* replaces that release's assets.                                         *)
(*                                                                         *)
(* GitHub is external: a release is a tag with assets, an asset is         *)
(* replaced by deleting it and uploading the new one, and the newest       *)
(* release is listed as soon as it is created.                             *)
(*                                                                         *)
(* A run is known by the job that recorded it.  The weather archive is the *)
(* stretches it holds, one for each day of the model, and a published      *)
(* table the years it has rows of: its row count is their number, its span *)
(* runs from the first to the last.                                        *)
(***************************************************************************)
EXTENDS Integers, FiniteSets, SequencesExt

CONSTANTS
  FirstDay,        \* bound: the archive before a behaviour begins is that long
  LastDay,         \* bound: the last day of a behaviour
  MaxJobs,         \* bound: how many jobs a behaviour starts
  ColdStart,       \* WEATHER_COLD_START_YEARS, in stretches
  Builds,          \* the tables a build may publish, each with its years
  Weather,         \* those that are read off the landing zone
  Fixed,           \* the relations the verify step wants rows of
  Exempt,          \* the tables EXEMPT_PREFIXES names
  MaxDrop,         \* MAX_DROP, in percent
  Backfills,       \* the stretches a dispatch may have fetched again
  TypedTags        \* the tags a dispatch may type

Nobody == -1
Elsewhere == -2               \* a tag that does not begin with "data-"
Days == FirstDay .. LastDay
Stretches == 0 .. LastDay
Jobs == 0 .. MaxJobs          \* job 0 made the release found at the start
Tags == Days \cup {Elsewhere}

ASSUME ReleaseAssumption ==
  /\ FirstDay \in Nat /\ LastDay \in Nat /\ FirstDay <= LastDay /\ MaxJobs \in Nat
  /\ ColdStart \in Nat \ {0} /\ MaxDrop \in Nat
  /\ \A b \in Builds : DOMAIN b # {} /\ b \in [DOMAIN b -> SUBSET Stretches]
  /\ TypedTags \subseteq Tags /\ Backfills \subseteq Stretches

Assets == {"warehouse", "lakehouse", "manifest"}
\* An asset that is not there has nothing in it: a published one never does.
NoAssets == [warehouse |-> {}, lakehouse |-> {}, manifest |-> <<>>]

VARIABLES
  day,
  listed,      \* the data-* releases, the oldest first
  releases,    \* the assets under each tag
  pc,          \* where the running job is
  job,         \* the number of jobs so far; the running one's name
  accept,      \* its accept_volume_drop input
  prev,        \* the release it carries from, Nobody if there is none
  built,       \* its warehouse, landing zone and published tables
  restored,    \* how much it carried in, counted
  tag,         \* the tag it publishes under, Nobody until that is settled
  todo,        \* the assets it has yet to upload
  published,   \* auxiliary: the runs and weather days the newest releases
               \* finished with, all of them together
  standing,    \* auxiliary: the tables the newest one finished with
  interrupted  \* auxiliary: an upload has stopped half way

github == <<listed, releases>>
aux == <<published, standing, interrupted>>
vars == <<day, listed, releases, pc, job, accept, prev, built, restored, tag, todo,
          published, standing, interrupted>>

Has(r, asset) == releases[r][asset] # NoAssets[asset]
Newest == Last(listed)

------------------------------------------------------------------------------
\* What a routine load asks for: the days from the newest held on, or a cold start's.
Fetched(held) ==
  {s \in Stretches : s <= day /\ IF held = {} THEN s > day - ColdStart ELSE \A h \in held : h <= s}

\* What a build publishes: weather tables show the landing zone as it is.
Tabulated(tables, archive) ==
  [t \in DOMAIN tables |-> IF t \in Weather THEN archive ELSE tables[t]]

\* No release yet, or one cut before or after the landing zone was published.
Init ==
  /\ day = FirstDay
  /\ \E first \in {NoAssets} \cup
          {[warehouse |-> {0}, lakehouse |-> l, manifest |-> Tabulated(b, 0 .. FirstDay)] :
             l \in {{}, 0 .. FirstDay}, b \in Builds} :
       /\ releases = [r \in Tags |-> IF r = FirstDay THEN first ELSE NoAssets]
       /\ listed = IF first = NoAssets THEN <<>> ELSE <<FirstDay>>
       /\ published = [warehouse |-> first.warehouse, lakehouse |-> first.lakehouse]
       /\ standing = first.manifest
  /\ pc = "idle" /\ job = 0 /\ accept = FALSE /\ prev = Nobody
  /\ built = NoAssets /\ restored = [warehouse |-> 0, lakehouse |-> 0]
  /\ tag = Nobody /\ todo = {} /\ interrupted = FALSE

NewDay ==
  /\ day < LastDay
  /\ day' = day + 1
  /\ UNCHANGED <<github, pc, job, accept, prev, built, restored, tag, todo, aux>>

\* A schedule or a dispatch, once no other job runs; the runner starts empty.
StartJob(mayDrop, typed) ==
  /\ pc = "idle" /\ job < MaxJobs
  /\ pc' = "started"
  /\ job' = job + 1
  /\ accept' = mayDrop
  /\ tag' = typed
  /\ UNCHANGED <<day, github, prev, built, restored, todo, aux>>

\* The runner goes, with all it holds.
EndJob ==
  /\ pc' = "idle" /\ accept' = FALSE /\ prev' = Nobody /\ built' = NoAssets
  /\ restored' = [warehouse |-> 0, lakehouse |-> 0] /\ tag' = Nobody /\ todo' = {}

\* Fault: a release without its warehouse is taken for one with nothing to carry.
CarryOrStartEmpty ==
  /\ pc = "started"
  /\ IF listed = <<>>
     THEN prev' = Nobody /\ UNCHANGED built
     ELSE /\ prev' = Newest
          /\ built' = [built EXCEPT !.warehouse = releases[Newest].warehouse,
                                    !.lakehouse = releases[Newest].lakehouse]
  /\ restored' = [warehouse |-> Cardinality(built'.warehouse),
                  lakehouse |-> Cardinality(built'.lakehouse)]
  /\ pc' = "carried"
  /\ UNCHANGED <<day, github, job, accept, tag, todo, aux>>

\* Fault: a landing zone that fails to download is taken for none.
CarryWhatDownloads ==
  /\ pc = "started"
  /\ IF listed = <<>>
     THEN prev' = Nobody /\ UNCHANGED built
     ELSE /\ Has(Newest, "warehouse")
          /\ prev' = Newest
          /\ \E lake \in {{}, releases[Newest].lakehouse} :
               built' = [built EXCEPT !.warehouse = releases[Newest].warehouse,
                                      !.lakehouse = lake]
  /\ restored' = [warehouse |-> Cardinality(built'.warehouse),
                  lakehouse |-> Cardinality(built'.lakehouse)]
  /\ pc' = "carried"
  /\ UNCHANGED <<day, github, job, accept, tag, todo, aux>>

\* The newest release's warehouse must download and restore; its landing zone
\* too, if the release lists one.  Only no release at all starts from nothing.
Carry ==
  /\ pc = "started"
  /\ IF listed = <<>>
     THEN prev' = Nobody /\ UNCHANGED built
     ELSE /\ Has(Newest, "warehouse")
          /\ prev' = Newest
          /\ built' = [built EXCEPT !.warehouse = releases[Newest].warehouse,
                                    !.lakehouse = releases[Newest].lakehouse]
  /\ restored' = [warehouse |-> Cardinality(built'.warehouse),
                  lakehouse |-> Cardinality(built'.lakehouse)]
  /\ pc' = "carried"
  /\ UNCHANGED <<day, github, job, accept, tag, todo, aux>>

\* weather_years: the years a dispatch names join the landing zone before the build.
Refetch(stretch) ==
  /\ pc = "carried" /\ stretch <= day
  /\ built' = [built EXCEPT !.lakehouse = @ \cup {stretch}]
  /\ UNCHANGED <<day, github, pc, job, accept, prev, restored, tag, todo, aux>>

\* ingest, dbt build, Polars: the run is appended to the carried history and the
\* newest weather to the carried archive, or to none; models, and the sources of the
\* other tables, may have changed since the last release.
Build(tables) ==
  /\ pc = "carried"
  /\ LET archive == built.lakehouse \cup Fetched(built.lakehouse)
     IN built' = [warehouse |-> built.warehouse \cup {job}, lakehouse |-> archive,
                  manifest |-> Tabulated(tables, archive)]
  /\ pc' = "built"
  /\ UNCHANGED <<day, github, job, accept, prev, restored, tag, todo, aux>>

\* Without a typed tag the export names the release after the day it runs on,
\* whenever the job began.
Package ==
  /\ pc = "built"
  /\ tag' = IF tag = Nobody THEN day ELSE tag
  /\ pc' = "packaged"
  /\ UNCHANGED <<day, github, job, accept, prev, built, restored, todo, aux>>

\* The relations the release is known for have rows; what was carried in is in the
\* package, by count, and so is a landing zone.
Verify ==
  /\ pc = "packaged"
  /\ \A t \in Fixed : t \in DOMAIN built.manifest /\ built.manifest[t] # {}
  /\ Cardinality(built.warehouse) >= restored.warehouse
  /\ Cardinality(built.lakehouse) >= restored.lakehouse
  /\ built.lakehouse # {}
  /\ pc' = "verified"
  /\ UNCHANGED <<day, github, job, accept, prev, built, restored, tag, todo, aux>>

\* compare_manifests' verdicts of a loss, on a table's years before and now.
Dropped(old, new) ==
  old # {} /\ (Cardinality(old) - Cardinality(new)) * 100 > MaxDrop * Cardinality(old)

Narrowed(old, new) == old # {} /\ (new = {} \/ Min(new) > Min(old) \/ Max(new) < Max(old))

\* Fault: a table is judged by its row count alone.
LostByRows(before, after) ==
  {t \in (DOMAIN before \cap DOMAIN after) \ Exempt : Dropped(before[t], after[t])}

\* LOSS_VERDICTS: a table that only one of the two manifests has was added or removed,
\* which is no loss, and one that is exempt is not judged.
Lost(before, after) ==
  {t \in (DOMAIN before \cap DOMAIN after) \ Exempt :
     Dropped(before[t], after[t]) \/ Narrowed(before[t], after[t])}

\* Compared with the manifest of the release carried from, if there is one.  A
\* release that did not exist is listed from here on, its assets still to come.
Compare ==
  /\ pc = "verified"
  /\ prev # Nobody =>
       /\ Has(prev, "manifest")
       /\ Lost(releases[prev].manifest, built.manifest) # {} => accept
  /\ listed' = IF tag = Elsewhere \/ Contains(listed, tag) THEN listed
               ELSE Append(listed, tag)
  /\ todo' = Assets
  /\ pc' = "publishing"
  /\ UNCHANGED <<day, releases, job, accept, prev, built, restored, tag, aux>>

\* Any step before the upload may fail, and nothing has been published.
Fail ==
  /\ pc \in {"started", "carried", "built", "packaged", "verified"}
  /\ EndJob
  /\ UNCHANGED <<day, github, job, aux>>

\* --clobber: an asset of the same name is deleted, then the new one uploaded.
Delete(asset) ==
  /\ pc = "publishing" /\ asset \in todo /\ Has(tag, asset)
  /\ releases' = [releases EXCEPT ![tag][asset] = NoAssets[asset]]
  /\ UNCHANGED <<day, listed, pc, job, accept, prev, built, restored, tag, todo, aux>>

Upload(asset) ==
  /\ pc = "publishing" /\ asset \in todo /\ ~Has(tag, asset)
  /\ releases' = [releases EXCEPT ![tag][asset] = built[asset]]
  /\ todo' = todo \ {asset}
  /\ UNCHANGED <<day, listed, pc, job, accept, prev, built, restored, tag, aux>>

\* What the next release builds on, unless the tag was an older release's.
Stands ==
  IF listed # <<>> /\ tag = Newest
  THEN /\ published' = [warehouse |-> published.warehouse \cup built.warehouse,
                        lakehouse |-> published.lakehouse \cup built.lakehouse]
       /\ standing' = built.manifest /\ UNCHANGED interrupted
  ELSE UNCHANGED aux

\* Fault: the job is over once the first assets are up.
FinishEarly ==
  /\ pc = "publishing" /\ todo # Assets
  /\ EndJob /\ Stands
  /\ UNCHANGED <<day, github, job>>

Finish ==
  /\ pc = "publishing" /\ todo = {}
  /\ EndJob /\ Stands
  /\ UNCHANGED <<day, github, job>>

\* The runner is lost or the API fails between two uploads: what is up is up.
Interrupt ==
  /\ pc = "publishing"
  /\ EndJob /\ interrupted' = TRUE
  /\ UNCHANGED <<day, github, job, published, standing>>

Next ==
  \/ NewDay
  \/ \E mayDrop \in BOOLEAN, typed \in TypedTags \cup {Nobody} : StartJob(mayDrop, typed)
  \/ Carry
  \/ \E stretch \in Backfills : Refetch(stretch)
  \/ \E tables \in Builds : Build(tables)
  \/ Package \/ Verify \/ Compare \/ Fail
  \/ \E asset \in Assets : Delete(asset) \/ Upload(asset)
  \/ Finish \/ Interrupt

Spec == Init /\ [][Next]_vars

------------------------------------------------------------------------------
Manifests == {<<>>} \cup {Tabulated(b, archive) : b \in Builds, archive \in SUBSET Stretches}

\* Types, and the steps at which a job has a tag and something left to upload.
TypeOK ==
  /\ day \in Days
  /\ listed \in Seq(Days) /\ IsInjective(listed)
  /\ releases \in [Tags -> [warehouse : SUBSET Jobs, lakehouse : SUBSET Stretches,
                            manifest : Manifests]]
  /\ pc \in {"idle", "started", "carried", "built", "packaged", "verified", "publishing"}
  /\ job \in Jobs /\ accept \in BOOLEAN /\ prev \in Days \cup {Nobody}
  /\ built \in [warehouse : SUBSET Jobs, lakehouse : SUBSET Stretches, manifest : Manifests]
  /\ restored \in [warehouse : Nat, lakehouse : Nat]
  /\ tag \in Tags \cup {Nobody} /\ todo \subseteq Assets
  /\ pc # "publishing" => todo = {}
  /\ pc \in {"packaged", "verified", "publishing"} => tag # Nobody
  /\ published \in [warehouse : SUBSET Jobs, lakehouse : SUBSET Stretches]
  /\ standing \in Manifests /\ interrupted \in BOOLEAN

\* "Only 'no previous release' may skip": until an upload stops half way, between jobs the newest release holds
\* every run and every weather day a newest release was ever finished with, across
\* failed jobs, days without one, replacements and releases put under older tags.
CarriedStateOnlyGrows ==
  (~interrupted /\ pc = "idle" /\ listed # <<>>) =>
    /\ published.warehouse \subseteq releases[Newest].warehouse
    /\ published.lakehouse \subseteq releases[Newest].lakehouse

\* A table that two finished releases in a row publish, and that is judged, loses from
\* one to the next neither more than MaxDrop of its rows nor a year at either end unless
\* a person accepted it, however many jobs failed or were replaced in between, until an
\* upload stops half way.
DropsAreAccepted ==
  [][~interrupted' /\ ~accept =>
       \A t \in (DOMAIN standing \cap DOMAIN standing') \ Exempt :
         LET before == standing[t]
             after == standing'[t]
         IN /\ (Cardinality(before) - Cardinality(after)) * 100 <= MaxDrop * Cardinality(before)
            /\ \A y \in before : \E first, last \in after : first <= y /\ y <= last]_vars

\* A release a job ends green with holds every run an earlier one did, even after
\* uploads that stopped half way: a release without its warehouse is fatal to the
\* next job.
RunsAreInherited ==
  [][published' # published => published.warehouse \subseteq releases[tag].warehouse]_vars

\* "A release cut before the landing zone was published has no tarball, and that alone
\* may skip it" (release-data.yml): once a release has ended green with a landing zone,
\* a job that has one to carry from carries its days.
OnlyOldReleasesSkip ==
  [][pc = "started" /\ pc' = "carried" /\ prev' # Nobody /\ published.lakehouse # {}
       => restored'.lakehouse > 0]_vars
==============================================================================
