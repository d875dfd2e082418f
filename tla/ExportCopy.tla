------------------------------ MODULE ExportCopy ------------------------------
(***************************************************************************)
(* How the copies that leave the machine are made from the built warehouse *)
(* (modern_data_stack/export.py, publish/export_warehouse.py, privacy.py): *)
(* the release's directory, and the copy live.yml uploads.  Each is written*)
(* in place and prepared step by step; the process may end after any step, *)
(* and an export may run again into the directory an earlier one left.     *)
(***************************************************************************)
EXTENDS Naturals, FiniteSets

CONSTANTS
    Staging,        \* dbt's staging views, each over the landing zone
    Tables,         \* relations dbt, its audits and Polars built as tables
    Views,          \* a function: view of a mart |-> the table it reads
    Identified,     \* the relations with a column classified as an identifier
    Shipped,        \* the relations that also ship as Parquet
    Optional,       \* tables a build may or may not hold (a failed test's rows)
    Copiers,           \* who copies and what is wrong: see Troubles
    MaxExports      \* bound: attempts

ASSUME ExportAssumption ==
    /\ IsFiniteSet(Staging \cup Tables \cup DOMAIN Views)
    /\ Staging \cap Tables = {} /\ DOMAIN Views \cap (Staging \cup Tables) = {}
    /\ "lake" \notin Tables     \* what a staging view reads
    /\ \A v \in DOMAIN Views : Views[v] \in Tables \ Optional
    /\ Identified \cup Shipped \subseteq Staging \cup Tables \cup DOMAIN Views
    /\ Optional \subseteq Tables \ Shipped
    /\ MaxExports \in Nat

VARIABLES
    source,     \* the built warehouse
    copier,        \* who copies, and what this attempt meets
    stage,         \* the step the running process is at
    out,        \* the export directory
    artifact,   \* artifact/warehouse.duckdb in live.yml's checkout
    touched,    \* the columns apply_pseudonymisation has gone through
    uploaded,   \* what live.yml uploaded
    attempts    \* bound

exportVars == <<source, copier, stage, out, artifact, touched, uploaded, attempts>>

\* What an attempt may meet: nothing; no salt in the environment; a landing zone
\* that is gone, empty, in a bucket or written by too new an extension; no
\* warehouse; one whose own identifiers were rewritten; too new a file format.
Troubles == {"none", "no salt", "no lakehouse", "empty lakehouse", "remote lakehouse",
             "spec", "no warehouse", "already rewritten", "format"}

-----------------------------------------------------------------------------
\* A relation of a file: a view reads another relation, a table holds values.
\* ids is what its identifying column holds: clear ids, nulls, pseudonyms.

NoFile == [built |-> 0, rels |-> <<>>, compact |-> FALSE]

\* The database file duckdb.connect makes before the source cannot be attached.
EmptyFile == [NoFile EXCEPT !.compact = TRUE]

Relation(r, ids) ==
    [kind |-> IF r \in Tables THEN "table" ELSE "view",
     reads |-> CASE r \in DOMAIN Views -> Views[r] [] r \in Staging -> "lake" [] OTHER -> "",
     ids |-> IF r \in Identified /\ r \in Tables THEN ids ELSE {},
     said |-> TRUE]

Warehouse(n, rels, ids) ==
    [built |-> n, rels |-> [r \in rels |-> Relation(r, ids)], compact |-> FALSE]

AllRelations == Staging \cup Tables \cup DOMAIN Views

\* What reading r's identifying column of a file gives.
Held(file, r) ==
    LET f == file.rels[r]
    IN CASE f.kind = "table" -> f.ids
         [] f.kind = "view" /\ f.reads = "lake" -> IF r \in Identified THEN {"id", "null"} ELSE {}
         [] OTHER -> file.rels[f.reads].ids

Opens(file, r) == file.rels[r].kind = "table" \/ file.rels[r].reads # "lake"

\* privacy.PSEUDONYM_PATTERN.
LooksLikeOne(v) == v \in {"pseudonym", "hash of the salt", "hash of a pseudonym"}

\* privacy.pseudonym_expr, under the update's "is not null".
\* Fault: concat() over every row hashes the bare salt where there is no id.
ConcatPseudonym(v) ==
    CASE v = "id" -> "pseudonym" [] v = "null" -> "hash of the salt" [] OTHER -> "hash of a pseudonym"

Pseudonym(v) ==
    CASE v = "id" -> "pseudonym" [] v = "null" -> "null" [] OTHER -> "hash of a pseudonym"

\* Fault: only the relations whose models declare the column.
DeclaredOnly(file) == DOMAIN file.rels \cap Identified \cap Shipped

ExpandByName(file) == DOMAIN file.rels \cap Identified

\* The file as it should leave: nothing reads the landing zone, no description
\* is lost, and every identifier is one pseudonym deep.
Prepared(file) ==
    \A r \in DOMAIN file.rels :
        /\ Opens(file, r) /\ file.rels[r].said
        /\ Held(file, r) \subseteq {"pseudonym", "null"}

-----------------------------------------------------------------------------
\* The export directory: the data files, the manifest and SHA256SUMS.

NoData == [warehouse |-> NoFile, tables |-> <<>>, lakehouse |-> 0]
NoManifest == [data |-> NoData, touched |-> {}]
NoFiles == [data |-> NoData, compacting |-> FALSE, manifest |-> NoManifest, sums |-> NoData]

Copying == copier.who = "live"

\* The file the running process prepares, and writing it.
Work == IF Copying THEN artifact ELSE out.data.warehouse

SetWork(file) ==
    IF Copying THEN artifact' = file /\ UNCHANGED out
    ELSE out' = [out EXCEPT !.data.warehouse = file] /\ UNCHANGED artifact

ExportInit ==
    /\ source = Warehouse(1, AllRelations, {"id", "null"})
    /\ copier \in Copiers
    /\ stage = "idle" /\ out = NoFiles /\ artifact = NoFile
    /\ touched = {} /\ uploaded = NoFile /\ attempts = 0

Idle == stage \in {"idle", "done", "failed"}

\* Another build between two exports: a failed test's table is there or not.
Rebuild ==
    /\ Idle /\ ~Copying /\ attempts > 0 /\ source.built <= attempts
    /\ \E gone \in SUBSET Optional :
         source' = Warehouse(source.built + 1, AllRelations \ gone, {"id", "null"})
    /\ UNCHANGED <<copier, stage, out, artifact, touched, uploaded, attempts>>

\* run and export up to the first write; pseudonymised_copy makes one copy, in a
\* fresh checkout.
StartExport ==
    /\ Idle /\ uploaded = NoFile
    /\ attempts < (IF Copying THEN 1 ELSE MaxExports)
    /\ attempts' = attempts + 1 /\ touched' = {}
    /\ \E j \in {k \in Copiers : k.who = copier.who} :
         /\ copier' = j
         /\ stage' = IF j.who = "release" /\ j.trouble \in {"remote lakehouse", "no warehouse"}
                  THEN "failed" ELSE "snapshot"
    /\ UNCHANGED <<source, out, artifact, uploaded>>

\* snapshot_warehouse: whatever was at the path goes first.
SnapshotWarehouse ==
    /\ stage = "snapshot"
    /\ SetWork(CASE copier.trouble = "no warehouse" -> EmptyFile
                 [] copier.trouble = "already rewritten" ->
                      Warehouse(source.built, DOMAIN source.rels, {"pseudonym", "null"})
                 [] OTHER -> source)
    /\ stage' = IF copier.trouble = "no warehouse" THEN "failed" ELSE "solidify"
    /\ UNCHANGED <<source, copier, touched, uploaded, attempts>>

StagingViews(file) == {r \in DOMAIN file.rels \cap Staging : file.rels[r].kind = "view"}

\* solidify_staging: each view becomes a table that says what the view said.
\* Fault: the descriptions are dropped with the view.
Silenced(file, r) == [kind |-> "table", reads |-> "", ids |-> Held(file, r), said |-> FALSE]

Solidified(file, r) ==
    [kind |-> "table", reads |-> "", ids |-> Held(file, r), said |-> file.rels[r].said]

SolidifyStaging ==
    /\ stage = "solidify" /\ copier.trouble # "no lakehouse"
    /\ \E r \in StagingViews(Work) :
         SetWork([Work EXCEPT !.rels[r] = Solidified(Work, r)])
    /\ UNCHANGED <<source, copier, stage, touched, uploaded, attempts>>

\* attach_lakehouse has nothing to attach.
CannotAttach ==
    /\ stage = "solidify" /\ copier.trouble = "no lakehouse"
    /\ stage' = IF StagingViews(Work) = {} THEN "rewrite" ELSE "failed"
    /\ UNCHANGED <<source, copier, out, artifact, touched, uploaded, attempts>>

\* prepare_published_copy: identifiers only once every staging view is a table.
BeginRewrite ==
    /\ stage = "solidify" /\ copier.trouble # "no lakehouse"
    /\ StagingViews(Work) = {}
    /\ stage' = IF copier.trouble = "no salt" THEN "failed" ELSE "rewrite"
    /\ UNCHANGED <<source, copier, out, artifact, touched, uploaded, attempts>>

\* Fault: views are rewritten too.
ViewsToo == ExpandByName(Work) \ touched

ToRewrite == {r \in ExpandByName(Work) \ touched : Work.rels[r].kind = "table"}

\* apply_pseudonymisation refuses a second pass.
\* Fault: a column that holds pseudonyms is hashed again.
NeverRefused(file, r) == FALSE

AlreadyRewritten(file, r) == \E v \in file.rels[r].ids : LooksLikeOne(v)

Rewrite ==
    /\ stage = "rewrite"
    /\ \E r \in ToRewrite :
         IF AlreadyRewritten(Work, r)
         THEN stage' = "failed" /\ UNCHANGED <<out, artifact, touched>>
         ELSE /\ SetWork([Work EXCEPT !.rels[r].ids = {Pseudonym(v) : v \in @}])
              /\ touched' = touched \cup {r}
              /\ UNCHANGED stage
    /\ UNCHANGED <<source, copier, uploaded, attempts>>

\* verify reads every column, of views too.
Offenders(file) ==
    {r \in ExpandByName(file) : \E v \in Held(file, r) : v # "null" /\ ~LooksLikeOne(v)}

VerifyCopy ==
    /\ stage = "rewrite" /\ ToRewrite = {}
    /\ stage' = IF Offenders(Work) # {} THEN "failed" ELSE IF Copying THEN "done" ELSE "compact"
    /\ UNCHANGED <<source, copier, out, artifact, touched, uploaded, attempts>>

\* export's second snapshot, by way of a directory of its own.
BeginCompact ==
    /\ stage = "compact"
    /\ out' = [out EXCEPT !.compacting = TRUE] /\ stage' = "replace"
    /\ UNCHANGED <<source, copier, artifact, touched, uploaded, attempts>>

Replace ==
    /\ stage = "replace"
    /\ out' = [out EXCEPT !.data.warehouse.compact = TRUE, !.compacting = FALSE]
    /\ stage' = IF copier.trouble = "format" THEN "failed" ELSE "lakehouse"
    /\ UNCHANGED <<source, copier, artifact, touched, uploaded, attempts>>

\* publish_lakehouse: the archive of the build, or none, which the manifest says.
ShippedLake == IF copier.trouble = "empty lakehouse" THEN 0 ELSE source.built

PublishLakehouse ==
    /\ stage = "lakehouse"
    /\ IF copier.trouble = "spec" THEN stage' = "failed" /\ UNCHANGED out
       ELSE /\ stage' = "tables"
            /\ out' = IF ShippedLake = 0 THEN out
                      ELSE [out EXCEPT !.data.lakehouse = ShippedLake]
    /\ UNCHANGED <<source, copier, artifact, touched, uploaded, attempts>>

\* export_table, for each of published_tables.
Parquet(file) ==
    [r \in DOMAIN file.rels \cap Shipped |-> [built |-> file.built, ids |-> Held(file, r)]]

ExportTables ==
    /\ stage = "tables"
    /\ LET made == Parquet(out.data.warehouse)
           held == out.data.tables
       IN out' = [out EXCEPT !.data.tables =
                    [r \in DOMAIN held \cup DOMAIN made |->
                       IF r \in DOMAIN made THEN made[r] ELSE held[r]]]
    /\ stage' = "manifest"
    /\ UNCHANGED <<source, copier, artifact, touched, uploaded, attempts>>

\* Fault: the manifest describes the warehouse it was built from, not the copy.
OfTheSource ==
    [data |-> [warehouse |-> source, tables |-> Parquet(source), lakehouse |-> ShippedLake],
     touched |-> touched]

Manifest ==
    [data |-> [warehouse |-> out.data.warehouse, tables |-> Parquet(out.data.warehouse),
               lakehouse |-> ShippedLake],
     touched |-> touched]

WriteManifest ==
    /\ stage = "manifest"
    /\ out' = [out EXCEPT !.manifest = Manifest] /\ stage' = "sums"
    /\ UNCHANGED <<source, copier, artifact, touched, uploaded, attempts>>

\* SHA256SUMS covers every data file found in the directory.
\* Fault: only the files the manifest names, an older archive's line kept.
SumsOfTheManifest == [out.manifest.data EXCEPT !.lakehouse = out.sums.lakehouse]

Sums == out.data

WriteSums ==
    /\ stage = "sums"
    /\ out' = [out EXCEPT !.sums = Sums] /\ stage' = "done"
    /\ UNCHANGED <<source, copier, artifact, touched, uploaded, attempts>>

\* The process dies, or its step's time is up.
Die ==
    /\ ~Idle /\ stage' = "failed"
    /\ UNCHANGED <<source, copier, out, artifact, touched, uploaded, attempts>>

\* live.yml uploads whatever is at the path, whatever the copy step did.
UploadCopy ==
    /\ Copying /\ stage \in {"done", "failed"} /\ artifact # NoFile /\ uploaded = NoFile
    /\ uploaded' = artifact
    /\ UNCHANGED <<source, copier, stage, out, artifact, touched, attempts>>

ExportNext ==
    \/ Rebuild \/ StartExport \/ SnapshotWarehouse \/ SolidifyStaging \/ CannotAttach
    \/ BeginRewrite \/ Rewrite \/ VerifyCopy \/ BeginCompact \/ Replace
    \/ PublishLakehouse \/ ExportTables \/ WriteManifest \/ WriteSums \/ Die \/ UploadCopy

ExportSpec == ExportInit /\ [][ExportNext]_exportVars

-----------------------------------------------------------------------------
\* sha256sum -c passes in the export directory.
SumsMatch == out.sums # NoData /\ out.sums = out.data

IdValues == {"id", "null", "pseudonym", "hash of the salt", "hash of a pseudonym"}

FileOK(file) ==
    /\ file.built \in 0 .. MaxExports + 1 /\ file.compact \in BOOLEAN
    /\ \A r \in DOMAIN file.rels : r \in AllRelations /\ file.rels[r].ids \subseteq IdValues

\* The directory's files, the process's step and its counters have the shapes the
\* code gives them, and only base tables are ever on the list of rewritten columns.
ExportTypeOK ==
    /\ FileOK(source) /\ FileOK(artifact) /\ FileOK(uploaded) /\ FileOK(out.data.warehouse)
    /\ copier \in Copiers /\ copier.trouble \in Troubles /\ attempts \in 0 .. MaxExports
    /\ stage \in {"idle", "snapshot", "solidify", "rewrite", "compact", "replace",
               "lakehouse", "tables", "manifest", "sums", "done", "failed"}
    /\ out.compacting \in BOOLEAN /\ out.data.lakehouse \in 0 .. MaxExports + 1
    /\ DOMAIN out.data.tables \subseteq Shipped
    /\ touched \subseteq Identified /\ ~Idle => \A r \in touched : Work.rels[r].kind = "table"

\* A directory whose checksums pass holds a prepared warehouse and prepared Parquet,
\* also after an export that failed over an earlier one; so does a finished copy for
\* live.yml.  Prepared means: opens alone, descriptions kept, every copy of every
\* identifier rewritten exactly once, whichever relation holds it, and nulls null.
TrustedIsPrepared ==
    /\ SumsMatch =>
         /\ Prepared(out.data.warehouse)
         /\ \A r \in DOMAIN out.data.tables : out.data.tables[r].ids \subseteq {"pseudonym", "null"}
    /\ (Copying /\ stage = "done") => Prepared(artifact)

\* A finished export's manifest is of the files beside it: the compacted copy, each
\* Parquet file it lists, the landing zone it says ships, the columns rewritten; and
\* the checksums pass, whatever an earlier attempt left lying there.
ManifestDescribesWhatShips ==
    (~Copying /\ stage = "done") =>
        LET said == out.manifest.data
        IN /\ said.warehouse = out.data.warehouse /\ said.warehouse.compact
           /\ \A r \in DOMAIN said.tables : out.data.tables[r] = said.tables[r]
           /\ said.lakehouse # 0 => out.data.lakehouse = said.lakehouse
           /\ out.manifest.touched =
                {r \in Identified \cap DOMAIN said.warehouse.rels : said.warehouse.rels[r].kind = "table"}
           /\ ~out.compacting /\ SumsMatch

\* live.yml:154 - "If the copy cannot be made, nothing is uploaded."
UploadedWasMade == uploaded # NoFile => stage = "done"
=============================================================================
