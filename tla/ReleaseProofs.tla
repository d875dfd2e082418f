----------------------------- MODULE ReleaseProofs -----------------------------
(***************************************************************************)
(* A release's way from one warehouse to the next: what an export leaves   *)
(* behind wherever it stops, what the chain of releases keeps for any      *)
(* number of jobs and days, and what a restore brings and keeps for any    *)
(* number of carried tables.  The three components share no name, so that  *)
(* one module states what is proved of all of them.                        *)
(***************************************************************************)
EXTENDS ExportCopy, ReleaseChain, CarryForward, TLAPS, FiniteSetTheorems, NaturalsInduction,
        WellFoundedInduction, SequenceTheorems

-----------------------------------------------------------------------------
(* THE EXPORT. *)

\* What one pass, or none, leaves in a column.
Once(ids) == ids \subseteq {"id", "null"} \/ ids \subseteq {"pseudonym", "null"}

\* A copy on its way: staging views and tables as the build or a step left them,
\* marts that read tables it has, no description lost.
OnItsWay(r, x, held) ==
    /\ x = [kind |-> x.kind, reads |-> x.reads, ids |-> x.ids, said |-> x.said]
    /\ x.said
    /\ r \in Tables => x.kind = "table"
    /\ r \in Staging => x.kind = "table" \/ (x.kind = "view" /\ x.reads = "lake")
    /\ r \in DOMAIN Views => x.kind = "view" /\ x.reads = Views[r] /\ Views[r] \in held
    /\ x.kind = "table" => Once(x.ids) /\ (r \notin Identified => x.ids = {})

IsFile(f) == f = [built |-> f.built, rels |-> f.rels, compact |-> f.compact]

Shape(f) ==
    /\ IsFile(f) /\ DOMAIN f.rels \subseteq AllRelations
    /\ \A r \in DOMAIN f.rels : OnItsWay(r, f.rels[r], DOMAIN f.rels)

IsOut(o) ==
    /\ o = [data |-> o.data, compacting |-> o.compacting, manifest |-> o.manifest, sums |-> o.sums]
    /\ o.data = [warehouse |-> o.data.warehouse, tables |-> o.data.tables, lakehouse |-> o.data.lakehouse]

-----------------------------------------------------------------------------
(* Files. *)

\* What a reader gets of a relation: its own rows, those of what it reads, the landing zone's.
LEMMA HeldCases ==
    ASSUME NEW f, NEW r
    PROVE  /\ f.rels[r].kind = "table" => Held(f, r) = f.rels[r].ids
           /\ (f.rels[r].kind = "view" /\ f.rels[r].reads # "lake")
                => Held(f, r) = f.rels[f.rels[r].reads].ids
           /\ (f.rels[r].kind = "view" /\ f.rels[r].reads = "lake")
                => Held(f, r) = IF r \in Identified THEN {"id", "null"} ELSE {}
<1>1. CASE f.rels[r].kind = "table"
  BY <1>1 DEF Held
<1>2. CASE f.rels[r].kind = "view" /\ f.rels[r].reads # "lake"
  BY <1>2 DEF Held
<1>3. CASE f.rels[r].kind = "view" /\ f.rels[r].reads = "lake"
  BY <1>3 DEF Held
<1> QED
  BY <1>1, <1>2, <1>3

\* A table whose identifiers are rewritten is on its way if they are.
LEMMA OtherIds ==
    ASSUME NEW x, NEW ids, NEW r, NEW held, OnItsWay(r, x, held), Once(ids),
           r \in Identified, x.kind = "table"
    PROVE  OnItsWay(r, [x EXCEPT !.ids = ids], held) /\ [x EXCEPT !.ids = ids].kind = x.kind
<1> DEFINE y == [x EXCEPT !.ids = ids]
<1>1. x = [kind |-> x.kind, reads |-> x.reads, ids |-> x.ids, said |-> x.said]
  BY DEF OnItsWay
<1>2. DOMAIN x = {"kind", "reads", "ids", "said"}
  BY <1>1
<1>3. y.kind = x.kind /\ y.reads = x.reads /\ y.ids = ids /\ y.said = x.said
  BY <1>2
<1>4. y = [kind |-> y.kind, reads |-> y.reads, ids |-> y.ids, said |-> y.said]
  BY <1>1, <1>2, <1>3
<1> HIDE DEF y
<1> QED
  BY <1>3, <1>4 DEF OnItsWay

\* What a build leaves is a copy on its way (dbt build).
LEMMA BuiltShape ==
    ASSUME NEW n, NEW rels \in SUBSET AllRelations, NEW ids, Once(ids),
           \A v \in DOMAIN Views \cap rels : Views[v] \in rels
    PROVE  Shape(Warehouse(n, rels, ids)) /\ DOMAIN Warehouse(n, rels, ids).rels = rels
<1> DEFINE f == Warehouse(n, rels, ids)
<1>1. IsFile(f) /\ DOMAIN f.rels = rels
  BY DEF Warehouse, IsFile
<1>2. ASSUME NEW r \in rels PROVE OnItsWay(r, f.rels[r], rels)
  <2>1. f.rels[r] = Relation(r, ids)
    BY DEF Warehouse
  <2>2. Once({})
    BY DEF Once
  <2>3. OnItsWay(r, Relation(r, ids), rels)
    <3>1. CASE r \in Tables
      BY <3>1, <2>2, ExportAssumption DEF OnItsWay, Relation
    <3>2. CASE r \in Staging
      BY <3>2, <2>2, ExportAssumption DEF OnItsWay, Relation
    <3>3. CASE r \in DOMAIN Views
      BY <3>3, <2>2, ExportAssumption DEF OnItsWay, Relation
    <3> QED
      BY <3>1, <3>2, <3>3 DEF AllRelations
  <2> QED
    BY <2>1, <2>3
<1> QED
  BY <1>1, <1>2 DEF Shape

\* A staging view made a table leaves the copy on its way, its description kept (solidify_staging).
LEMMA SolidShape ==
    ASSUME NEW f, Shape(f), NEW r \in StagingViews(f)
    PROVE  LET g == [f EXCEPT !.rels[r] = Solidified(f, r)]
           IN Shape(g) /\ DOMAIN g.rels = DOMAIN f.rels
<1> DEFINE g == [f EXCEPT !.rels[r] = Solidified(f, r)]
<1>1. r \in DOMAIN f.rels /\ r \in Staging /\ f.rels[r].kind = "view" /\ f.rels[r].reads = "lake"
  BY DEF StagingViews, Shape, OnItsWay
<1>2. IsFile(g) /\ g.rels = [f.rels EXCEPT ![r] = Solidified(f, r)]
  BY DEF Shape, IsFile
<1>3. DOMAIN g.rels = DOMAIN f.rels /\ g.rels[r] = Solidified(f, r)
  BY <1>1, <1>2
<1>4. Held(f, r) = IF r \in Identified THEN {"id", "null"} ELSE {}
  BY <1>1, HeldCases
<1>5. OnItsWay(r, Solidified(f, r), DOMAIN f.rels)
  <2>1. Once(Held(f, r)) /\ (r \notin Identified => Held(f, r) = {})
    BY <1>4 DEF Once
  <2>2. f.rels[r].said
    BY <1>1 DEF Shape, OnItsWay
  <2> QED
    BY <1>1, <2>1, <2>2, ExportAssumption DEF OnItsWay, Solidified
<1>6. \A q \in DOMAIN f.rels \ {r} : g.rels[q] = f.rels[q]
  BY <1>2
<1> QED
  BY <1>2, <1>3, <1>5, <1>6 DEF Shape

\* One pass over a table's clear identifiers leaves it on its way (apply_pseudonymisation).
LEMMA RewrittenShape ==
    ASSUME NEW f, Shape(f), NEW r \in DOMAIN f.rels \cap Identified, f.rels[r].kind = "table",
           ~AlreadyRewritten(f, r)
    PROVE  LET g == [f EXCEPT !.rels[r].ids = {Pseudonym(v) : v \in @}]
           IN /\ Shape(g) /\ DOMAIN g.rels = DOMAIN f.rels
              /\ \A q \in DOMAIN f.rels : g.rels[q].kind = f.rels[q].kind
<1> DEFINE ids == {Pseudonym(v) : v \in f.rels[r].ids}
           g == [f EXCEPT !.rels[r].ids = {Pseudonym(v) : v \in @}]
<1>1. IsFile(g) /\ g.rels = [f.rels EXCEPT ![r] = [f.rels[r] EXCEPT !.ids = ids]]
  BY SMTT(30) DEF Shape, IsFile
<1>2. DOMAIN g.rels = DOMAIN f.rels /\ g.rels[r] = [f.rels[r] EXCEPT !.ids = ids]
  BY <1>1
<1>3. ids \subseteq {"pseudonym", "null"}
  <2>1. f.rels[r].ids \subseteq {"id", "null"}
    BY DEF Shape, OnItsWay, Once, AlreadyRewritten, LooksLikeOne
  <2> QED
    BY <2>1 DEF Pseudonym
<1>4. OnItsWay(r, g.rels[r], DOMAIN f.rels) /\ g.rels[r].kind = f.rels[r].kind
  <2>1. OnItsWay(r, f.rels[r], DOMAIN f.rels)
    BY DEF Shape
  <2>2. Once(ids)
    BY <1>3 DEF Once
  <2> HIDE DEF g, ids
  <2> QED
    BY <1>2, <2>1, <2>2, OtherIds
<1>5. \A q \in DOMAIN f.rels \ {r} : g.rels[q] = f.rels[q]
  BY <1>1
<1> QED
  BY <1>1, <1>2, <1>4, <1>5 DEF Shape

\* Every column verify looks at, and every one it does not, is one pass deep.
LEMMA VerifiedIsPrepared ==
    ASSUME NEW f, Shape(f), StagingViews(f) = {}, Offenders(f) = {}
    PROVE  Prepared(f)
<1>1. ASSUME NEW r \in DOMAIN f.rels, f.rels[r].kind = "table"
      PROVE  Held(f, r) \subseteq {"pseudonym", "null"}
  <2>1. Held(f, r) = f.rels[r].ids /\ Once(f.rels[r].ids) /\ (r \notin Identified => f.rels[r].ids = {})
    BY <1>1, HeldCases DEF Shape, OnItsWay
  <2>2. CASE r \in Identified
    <3>1. \A v \in Held(f, r) : v = "null" \/ LooksLikeOne(v)
      BY <2>2 DEF Offenders, ExpandByName
    <3> QED
      BY <2>1, <3>1 DEF Once, LooksLikeOne
  <2> QED
    BY <2>1, <2>2
<1>2. ASSUME NEW r \in DOMAIN f.rels
      PROVE  Opens(f, r) /\ f.rels[r].said /\ Held(f, r) \subseteq {"pseudonym", "null"}
  <2>1. OnItsWay(r, f.rels[r], DOMAIN f.rels) /\ r \in AllRelations
    BY DEF Shape
  <2>2. CASE f.rels[r].kind = "table"
    BY <2>1, <2>2, <1>1 DEF Opens, OnItsWay
  <2>3. CASE f.rels[r].kind # "table"
    <3>1. r \in DOMAIN Views /\ f.rels[r].kind = "view" /\ f.rels[r].reads = Views[r] /\ Views[r] \in DOMAIN f.rels
      BY <2>1, <2>3 DEF OnItsWay, AllRelations, StagingViews
    <3>2. Views[r] \in Tables /\ Views[r] # "lake"
      BY <3>1, ExportAssumption
    <3>3. f.rels[Views[r]].kind = "table"
      BY <3>1, <3>2 DEF Shape, OnItsWay
    <3>4. Held(f, r) = f.rels[Views[r]].ids /\ Held(f, Views[r]) = f.rels[Views[r]].ids
      BY <3>1, <3>2, <3>3, HeldCases
    <3> QED
      BY <2>1, <3>1, <3>2, <3>3, <3>4, <1>1 DEF Opens, OnItsWay
  <2> QED
    BY <2>2, <2>3
<1> QED
  BY <1>2 DEF Prepared

-----------------------------------------------------------------------------
(* The directory. *)

Clear(ids) == ids \subseteq {"pseudonym", "null"}

\* What checksums are taken of.
Ready(d) == Prepared(d.warehouse) /\ \A r \in DOMAIN d.tables : Clear(d.tables[r].ids)

AfterVerify == {"compact", "replace", "lakehouse", "tables", "manifest", "sums"}

\* The file a running attempt works on: untouched, then without staging views, then
\* prepared; and nothing else in the directory was ever made of less.
PreparedInv ==
    /\ IsOut(out)
    /\ Shape(source)
    /\ stage \in {"solidify", "rewrite"} => Shape(Work)
    /\ stage = "rewrite" => StagingViews(Work) = {}
    /\ stage \in AfterVerify =>
         ~Copying /\ IsFile(out.data.warehouse) /\ Prepared(out.data.warehouse)
    /\ (Copying /\ stage = "done") => Prepared(artifact)
    /\ \A r \in DOMAIN out.data.tables : Clear(out.data.tables[r].ids)
    /\ out.sums # NoData => Ready(out.sums)

\* SetWork changes the attempt's file and nothing else it answers for.
LEMMA SetWorkSets ==
    ASSUME NEW f, IsOut(out), SetWork(f), copier' = copier
    PROVE  /\ Work' = f /\ IsOut(out')
           /\ out'.data.tables = out.data.tables /\ out'.sums = out.sums
           /\ Copying' = Copying
<1>1. CASE Copying
  BY <1>1 DEF SetWork, Work, Copying
<1>2. CASE ~Copying
  <2>1. out' = [out EXCEPT !.data.warehouse = f] /\ ~Copying'
    BY <1>2 DEF SetWork, Copying
  <2>2. IsOut(out') /\ out'.data.warehouse = f /\ out'.data.tables = out.data.tables
        /\ out'.sums = out.sums
    BY <2>1 DEF IsOut
  <2> QED
    BY <1>2, <2>1, <2>2 DEF Work, Copying
<1> QED
  BY <1>1, <1>2

\* A file whose compact field is set is a file with the same relations.
LEMMA SetCompact ==
    ASSUME NEW f, IsFile(f), NEW c
    PROVE  IsFile([f EXCEPT !.compact = c]) /\ [f EXCEPT !.compact = c].rels = f.rels
<1> DEFINE g == [f EXCEPT !.compact = c]
<1>1. f = [built |-> f.built, rels |-> f.rels, compact |-> f.compact]
  BY DEF IsFile
<1>2. DOMAIN f = {"built", "rels", "compact"}
  BY <1>1
<1>3. g.rels = f.rels /\ g.built = f.built /\ g.compact = c
  BY <1>2
<1>4. g = [built |-> f.built, rels |-> f.rels, compact |-> c]
  BY <1>1, <1>2
<1> QED
  BY <1>3, <1>4 DEF IsFile

\* Compacting changes nothing a reader of the copy sees.
LEMMA CompactIsPrepared ==
    ASSUME NEW f, IsFile(f), Prepared(f)
    PROVE  LET g == [f EXCEPT !.compact = TRUE] IN IsFile(g) /\ Prepared(g)
<1> DEFINE g == [f EXCEPT !.compact = TRUE]
<1>1. g.rels = f.rels /\ IsFile(g)
  BY SetCompact
<1>2. ASSUME NEW r PROVE Held(g, r) = Held(f, r) /\ (Opens(g, r) <=> Opens(f, r))
  BY <1>1 DEF Held, Opens
<1> QED
  BY <1>1, <1>2 DEF Prepared

\* The invariant holds of a built warehouse and an empty directory.
LEMMA PreparedInit == ExportInit => PreparedInv
<1> SUFFICES ASSUME ExportInit PROVE PreparedInv
  OBVIOUS
<1>1. Shape(source)
  <2>1. Once({"id", "null"}) /\ \A v \in DOMAIN Views \cap AllRelations : Views[v] \in AllRelations
    BY ExportAssumption DEF Once, AllRelations
  <2> QED
    BY <2>1, BuiltShape DEF ExportInit
<1>2. IsOut(out) /\ out.data.tables = <<>> /\ out.sums = NoData
  BY DEF ExportInit, NoFiles, NoData, NoManifest, IsOut
<1> QED
  BY <1>1, <1>2 DEF ExportInit, PreparedInv, AfterVerify

\* Every step keeps it, a stop and a rebuild between any two included.
LEMMA PreparedStep == PreparedInv /\ [ExportNext]_exportVars => PreparedInv'
<1> SUFFICES ASSUME PreparedInv, [ExportNext]_exportVars PROVE PreparedInv'
  OBVIOUS
<1> USE DEF AfterVerify
<1>1. CASE Rebuild
  <2>1. PICK gone \in SUBSET Optional :
          source' = Warehouse(source.built + 1, AllRelations \ gone, {"id", "null"})
    BY <1>1 DEF Rebuild
  <2>2. Shape(source')
    <3>1. Once({"id", "null"})
          /\ \A v \in DOMAIN Views \cap (AllRelations \ gone) : Views[v] \in AllRelations \ gone
      BY ExportAssumption DEF Once, AllRelations
    <3> QED
      BY <2>1, <3>1, BuiltShape
  <2>3. UNCHANGED <<copier, stage, out, artifact>>
    BY <1>1 DEF Rebuild
  <2> QED
    BY <2>2, <2>3 DEF PreparedInv, Work, Copying
<1>2. CASE StartExport
  <2>1. stage' \in {"failed", "snapshot"} /\ UNCHANGED <<source, out, artifact>>
    BY <1>2 DEF StartExport
  <2> QED
    BY <2>1 DEF PreparedInv, Work, Copying
<1>3. CASE SnapshotWarehouse
  <2>1. PICK f : SetWork(f) /\ (stage' = "solidify" => Shape(f))
    <3>1. Once({"pseudonym", "null"})
          /\ \A v \in DOMAIN Views \cap DOMAIN source.rels : Views[v] \in DOMAIN source.rels
      BY DEF Once, PreparedInv, Shape, OnItsWay
    <3>2. Shape(Warehouse(source.built, DOMAIN source.rels, {"pseudonym", "null"})) /\ Shape(source)
      BY <3>1, BuiltShape DEF PreparedInv, Shape
    <3>3. CASE copier.trouble = "no warehouse"
      BY <1>3, <3>3 DEF SnapshotWarehouse
    <3>4. CASE copier.trouble = "already rewritten"
      BY <1>3, <3>2, <3>4 DEF SnapshotWarehouse
    <3>5. CASE copier.trouble \notin {"no warehouse", "already rewritten"}
      BY <1>3, <3>2, <3>5 DEF SnapshotWarehouse
    <3> QED
      BY <3>3, <3>4, <3>5
  <2>2. copier' = copier /\ source' = source /\ stage' \in {"failed", "solidify"}
    BY <1>3 DEF SnapshotWarehouse
  <2>3. Work' = f /\ IsOut(out') /\ out'.data.tables = out.data.tables /\ out'.sums = out.sums
    BY <2>1, <2>2, SetWorkSets DEF PreparedInv
  <2> QED
    BY <2>1, <2>2, <2>3 DEF PreparedInv
<1>4. CASE SolidifyStaging
  <2>1. PICK r \in StagingViews(Work) : SetWork([Work EXCEPT !.rels[r] = Solidified(Work, r)])
    BY <1>4 DEF SolidifyStaging
  <2> DEFINE g == [Work EXCEPT !.rels[r] = Solidified(Work, r)]
  <2>2. stage = "solidify" /\ Shape(Work) /\ UNCHANGED <<source, copier, stage>>
    BY <1>4 DEF SolidifyStaging, PreparedInv
  <2>3. Shape(g)
    BY <2>1, <2>2, SolidShape
  <2>4. Work' = g /\ IsOut(out') /\ out'.data.tables = out.data.tables /\ out'.sums = out.sums
    <3> HIDE DEF g
    <3> QED
      BY <2>1, <2>2, SetWorkSets DEF PreparedInv, g
  <2> QED
    BY <2>2, <2>3, <2>4 DEF PreparedInv
<1>5. CASE CannotAttach \/ BeginRewrite
  <2>1. stage = "solidify" /\ UNCHANGED <<source, copier, out, artifact>> /\ stage' \in {"rewrite", "failed"}
        /\ (stage' = "rewrite" => StagingViews(Work) = {})
    BY <1>5 DEF CannotAttach, BeginRewrite
  <2>2. Work' = Work /\ Copying' = Copying
    BY <2>1 DEF Work, Copying
  <2> QED
    BY <2>1, <2>2 DEF PreparedInv
<1>6. CASE Rewrite
  <2>1. PICK r \in ToRewrite :
          \/ stage' = "failed" /\ UNCHANGED <<out, artifact>>
          \/ /\ ~AlreadyRewritten(Work, r) /\ UNCHANGED stage
             /\ SetWork([Work EXCEPT !.rels[r].ids = {Pseudonym(v) : v \in @}])
    BY <1>6 DEF Rewrite
  <2> DEFINE g == [Work EXCEPT !.rels[r].ids = {Pseudonym(v) : v \in @}]
  <2>2. stage = "rewrite" /\ Shape(Work) /\ StagingViews(Work) = {} /\ UNCHANGED <<source, copier>>
    BY <1>6 DEF Rewrite, PreparedInv
  <2>3. CASE stage' = "failed" /\ UNCHANGED <<out, artifact>>
    BY <2>2, <2>3 DEF PreparedInv
  <2>4. CASE ~AlreadyRewritten(Work, r) /\ UNCHANGED stage /\ SetWork(g)
    <3>1. r \in DOMAIN Work.rels \cap Identified /\ Work.rels[r].kind = "table"
      BY <2>1 DEF ToRewrite, ExpandByName
    <3>2. Shape(g) /\ DOMAIN g.rels = DOMAIN Work.rels
          /\ \A q \in DOMAIN Work.rels : g.rels[q].kind = Work.rels[q].kind
      BY <2>2, <2>4, <3>1, RewrittenShape
    <3>3. StagingViews(g) = {}
      BY <2>2, <3>2 DEF StagingViews
    <3>4. Work' = g /\ IsOut(out') /\ out'.data.tables = out.data.tables /\ out'.sums = out.sums
      <4> HIDE DEF g
      <4> QED
        BY <2>2, <2>4, SetWorkSets DEF PreparedInv
    <3> HIDE DEF g
    <3> QED
      BY <2>2, <2>4, <3>2, <3>3, <3>4 DEF PreparedInv
  <2> QED
    BY <2>1, <2>3, <2>4
<1>7. CASE VerifyCopy
  <2>1. stage = "rewrite" /\ UNCHANGED <<source, copier, out, artifact>>
    BY <1>7 DEF VerifyCopy
  <2>2. stage' = "failed" \/ (Offenders(Work) = {} /\ stage' = IF Copying THEN "done" ELSE "compact")
    BY <1>7 DEF VerifyCopy
  <2>3. Offenders(Work) = {} => Prepared(Work) /\ IsFile(Work)
    BY <2>1, VerifiedIsPrepared DEF PreparedInv, Shape
  <2> QED
    BY <2>1, <2>2, <2>3 DEF PreparedInv, Work, Copying
<1>8. CASE BeginCompact
  <2>1. stage = "compact" /\ stage' = "replace" /\ UNCHANGED <<source, copier, artifact>>
        /\ out' = [out EXCEPT !.compacting = TRUE]
    BY <1>8 DEF BeginCompact
  <2>2. IsOut(out') /\ out'.data = out.data /\ out'.sums = out.sums
    BY <2>1 DEF PreparedInv, IsOut
  <2> QED
    BY <2>1, <2>2 DEF PreparedInv, Copying
<1>9. CASE Replace
  <2> DEFINE f == out.data.warehouse
             g == [f EXCEPT !.compact = TRUE]
  <2>1. stage = "replace" /\ stage' \in {"failed", "lakehouse"} /\ UNCHANGED <<source, copier, artifact>>
        /\ out' = [out EXCEPT !.data.warehouse.compact = TRUE, !.compacting = FALSE]
    BY <1>9 DEF Replace
  <2>2. IsOut(out') /\ out'.data.warehouse = g /\ out'.data.tables = out.data.tables
        /\ out'.sums = out.sums
    BY <2>1 DEF PreparedInv, IsOut
  <2>3. IsFile(g) /\ Prepared(g)
    BY <2>1, CompactIsPrepared DEF PreparedInv
  <2> QED
    BY <2>1, <2>2, <2>3 DEF PreparedInv, Copying
<1>10. CASE PublishLakehouse
  <2>1. stage = "lakehouse" /\ stage' \in {"failed", "tables"} /\ UNCHANGED <<source, copier, artifact>>
    BY <1>10 DEF PublishLakehouse
  <2>2. IsOut(out') /\ out'.data.warehouse = out.data.warehouse
        /\ out'.data.tables = out.data.tables /\ out'.sums = out.sums
    BY <1>10 DEF PublishLakehouse, PreparedInv, IsOut
  <2> QED
    BY <2>1, <2>2 DEF PreparedInv, Copying
<1>11. CASE ExportTables
  <2> DEFINE made == Parquet(out.data.warehouse)
             held == out.data.tables
             all == [r \in DOMAIN held \cup DOMAIN made |-> IF r \in DOMAIN made THEN made[r] ELSE held[r]]
  <2>1. stage = "tables" /\ stage' = "manifest" /\ UNCHANGED <<source, copier, artifact>>
        /\ out' = [out EXCEPT !.data.tables = all]
    BY <1>11 DEF ExportTables
  <2>2. \A r \in DOMAIN made : Clear(made[r].ids)
    BY <2>1 DEF Parquet, PreparedInv, Prepared, Clear
  <2>3. \A r \in DOMAIN all : Clear(all[r].ids)
    <3> HIDE DEF made
    <3> QED
      BY <2>2 DEF PreparedInv
  <2>4. IsOut(out') /\ out'.data.warehouse = out.data.warehouse
        /\ out'.data.tables = all /\ out'.sums = out.sums
    <3> HIDE DEF all
    <3> QED
      BY <2>1 DEF PreparedInv, IsOut
  <2> QED
    BY <2>1, <2>3, <2>4 DEF PreparedInv, Copying
<1>12. CASE WriteManifest
  <2>1. stage = "manifest" /\ stage' = "sums" /\ UNCHANGED <<source, copier, artifact>>
        /\ out' = [out EXCEPT !.manifest = Manifest]
    BY <1>12 DEF WriteManifest
  <2>2. IsOut(out') /\ out'.data = out.data /\ out'.sums = out.sums
    BY <2>1 DEF PreparedInv, IsOut
  <2> QED
    BY <2>1, <2>2 DEF PreparedInv, Copying
<1>13. CASE WriteSums
  <2>1. stage = "sums" /\ stage' = "done" /\ UNCHANGED <<source, copier, artifact>>
        /\ out' = [out EXCEPT !.sums = out.data]
    BY <1>13 DEF WriteSums, Sums
  <2>2. IsOut(out') /\ out'.data = out.data /\ out'.sums = out.data
    BY <2>1 DEF PreparedInv, IsOut
  <2>3. Ready(out.data)
    BY <2>1 DEF PreparedInv, Ready
  <2> QED
    BY <2>1, <2>2, <2>3 DEF PreparedInv, Copying
<1>14. CASE Die
  <2>1. stage' = "failed" /\ UNCHANGED <<source, copier, out, artifact>>
    BY <1>14 DEF Die
  <2> QED
    BY <2>1 DEF PreparedInv
<1>15. CASE UploadCopy \/ UNCHANGED exportVars
  <2>1. UNCHANGED <<source, copier, stage, out, artifact>>
    BY <1>15 DEF UploadCopy, exportVars
  <2> QED
    BY <2>1 DEF PreparedInv, Work, Copying
<1> QED
  BY <1>1, <1>2, <1>3, <1>4, <1>5, <1>6, <1>7, <1>8, <1>9, <1>10, <1>11, <1>12, <1>13, <1>14, <1>15
  DEF ExportNext

\* For any relations and identifiers, whatever each attempt meets and wherever it stops:
\* what the checksums of an export vouch for, and what live.yml's copy step finishes, is
\* prepared (export, prepare_published_copy, pseudonymised_copy).
THEOREM TrustedCopiesArePrepared == ExportSpec => []TrustedIsPrepared
<1>1. PreparedInv => TrustedIsPrepared
  BY DEF PreparedInv, TrustedIsPrepared, SumsMatch, Ready, Clear
<1> QED
  BY <1>1, PreparedInit, PreparedStep, PTL DEF ExportSpec

-----------------------------------------------------------------------------
(* The manifest. *)

Rewritable(f) == {r \in Identified \cap DOMAIN f.rels : f.rels[r].kind = "table"}

LakeIsThere == ShippedLake # 0 => out.data.lakehouse = ShippedLake

ParquetIsThere ==
    \A r \in DOMAIN Parquet(out.data.warehouse) : out.data.tables[r] = Parquet(out.data.warehouse)[r]

\* What an attempt has done by each of its steps is in the directory, and said of it: the
\* columns it went through, the compacted copy, the landing zone, the Parquet, the manifest.
ManifestInv ==
    /\ stage \in {"snapshot", "solidify"} => touched = {}
    /\ stage = "rewrite" => touched \subseteq Rewritable(Work)
    /\ stage \in AfterVerify => touched = Rewritable(out.data.warehouse)
    /\ stage \in {"lakehouse", "tables", "manifest", "sums"} =>
         out.data.warehouse.compact = TRUE /\ out.compacting = FALSE
    /\ stage \in {"tables", "manifest", "sums"} => LakeIsThere
    /\ stage \in {"manifest", "sums"} => ParquetIsThere
    /\ stage = "sums" => out.manifest = Manifest
    /\ ManifestDescribesWhatShips

\* The end of an export: its manifest is of its files, and they are summed.
LEMMA SummedAndDescribed ==
    ASSUME PreparedInv, ManifestInv, WriteSums
    PROVE  ManifestDescribesWhatShips'
<1>1. /\ stage = "sums" /\ UNCHANGED <<source, copier, artifact, touched>>
      /\ out' = [out EXCEPT !.sums = out.data]
  BY DEF WriteSums, Sums
<1>2. /\ out'.data = out.data /\ out'.sums = out.data /\ out'.manifest = out.manifest
      /\ out'.compacting = out.compacting
  BY <1>1 DEF PreparedInv, IsOut
<1>3. /\ out.manifest = Manifest /\ out.data.warehouse.compact = TRUE /\ out.compacting = FALSE
      /\ LakeIsThere /\ ParquetIsThere /\ touched = Rewritable(out.data.warehouse)
  BY <1>1 DEF ManifestInv, AfterVerify
<1>4. /\ Manifest.data.warehouse = out.data.warehouse
      /\ Manifest.data.tables = Parquet(out.data.warehouse)
      /\ Manifest.data.lakehouse = ShippedLake /\ Manifest.touched = touched
  BY DEF Manifest
<1>5. out.data # NoData
  <2>1. NoData.warehouse.compact = FALSE
    BY DEF NoData, NoFile
  <2> QED
    BY <1>3, <2>1
<1>6. SumsMatch'
  BY <1>2, <1>5 DEF SumsMatch
<1> QED
  BY <1>2, <1>3, <1>4, <1>6 DEF ManifestDescribesWhatShips, LakeIsThere, ParquetIsThere, Rewritable

LEMMA ManifestInit == ExportInit => ManifestInv
BY DEF ExportInit, ManifestInv, AfterVerify, ManifestDescribesWhatShips

\* Every step keeps it.
LEMMA ManifestStep == PreparedInv /\ ManifestInv /\ [ExportNext]_exportVars => ManifestInv'
<1> SUFFICES ASSUME PreparedInv, ManifestInv, [ExportNext]_exportVars PROVE ManifestInv'
  OBVIOUS
<1> USE DEF AfterVerify
<1>1. CASE Rebuild
  <2>1. stage' = stage /\ stage \in {"idle", "done", "failed"} /\ UNCHANGED <<copier, out, artifact, touched>>
    BY <1>1 DEF Rebuild, Idle
  <2> QED
    BY <2>1 DEF ManifestInv, ManifestDescribesWhatShips, SumsMatch, Copying
<1>2. CASE StartExport
  <2>1. stage' \in {"failed", "snapshot"} /\ touched' = {}
    BY <1>2 DEF StartExport
  <2> QED
    BY <2>1 DEF ManifestInv, ManifestDescribesWhatShips
<1>3. CASE SnapshotWarehouse
  <2>1. stage = "snapshot" /\ stage' \in {"failed", "solidify"} /\ touched' = touched
    BY <1>3 DEF SnapshotWarehouse
  <2> QED
    BY <2>1 DEF ManifestInv, ManifestDescribesWhatShips
<1>4. CASE SolidifyStaging
  <2>1. stage = "solidify" /\ stage' = "solidify" /\ touched' = touched
    BY <1>4 DEF SolidifyStaging
  <2> QED
    BY <2>1 DEF ManifestInv, ManifestDescribesWhatShips
<1>5. CASE CannotAttach \/ BeginRewrite
  <2>1. stage = "solidify" /\ stage' \in {"rewrite", "failed"} /\ touched' = touched
    BY <1>5 DEF CannotAttach, BeginRewrite
  <2> QED
    BY <2>1 DEF ManifestInv, ManifestDescribesWhatShips
<1>6. CASE Rewrite
  <2>1. PICK r \in ToRewrite :
          \/ stage' = "failed"
          \/ /\ ~AlreadyRewritten(Work, r) /\ UNCHANGED stage /\ touched' = touched \cup {r}
             /\ SetWork([Work EXCEPT !.rels[r].ids = {Pseudonym(v) : v \in @}])
    BY <1>6 DEF Rewrite
  <2> DEFINE g == [Work EXCEPT !.rels[r].ids = {Pseudonym(v) : v \in @}]
  <2>2. stage = "rewrite" /\ Shape(Work) /\ IsOut(out) /\ UNCHANGED copier
    BY <1>6 DEF Rewrite, PreparedInv
  <2>3. CASE stage' = "failed"
    BY <2>3 DEF ManifestInv, ManifestDescribesWhatShips
  <2>4. CASE ~AlreadyRewritten(Work, r) /\ UNCHANGED stage /\ touched' = touched \cup {r} /\ SetWork(g)
    <3>1. r \in DOMAIN Work.rels \cap Identified /\ Work.rels[r].kind = "table"
      BY <2>1 DEF ToRewrite, ExpandByName
    <3>2. DOMAIN g.rels = DOMAIN Work.rels
          /\ \A q \in DOMAIN Work.rels : g.rels[q].kind = Work.rels[q].kind
      BY <2>2, <2>4, <3>1, RewrittenShape
    <3> HIDE DEF g
    <3>3. Work' = g
      BY <2>2, <2>4, SetWorkSets
    <3>4. r \in Rewritable(Work) /\ Rewritable(g) = Rewritable(Work)
      BY <3>1, <3>2 DEF Rewritable
    <3>5. touched' \subseteq Rewritable(Work')
      BY <2>2, <2>4, <3>3, <3>4 DEF ManifestInv
    <3> QED
      BY <2>2, <2>4, <3>5 DEF ManifestInv, ManifestDescribesWhatShips, Rewritable
  <2> QED
    BY <2>1, <2>3, <2>4
<1>7. CASE VerifyCopy
  <2>1. stage = "rewrite" /\ ToRewrite = {} /\ UNCHANGED <<source, copier, out, artifact, touched>>
        /\ (stage' = "failed" \/ stage' = IF Copying THEN "done" ELSE "compact")
    BY <1>7 DEF VerifyCopy
  <2>2. touched = Rewritable(Work)
    BY <2>1 DEF ManifestInv, ToRewrite, ExpandByName, Rewritable
  <2>3. CASE Copying /\ stage' = "done"
    BY <2>1, <2>3 DEF ManifestInv, ManifestDescribesWhatShips, Copying
  <2>4. CASE ~Copying /\ stage' = "compact"
    BY <2>1, <2>2, <2>4 DEF ManifestInv, ManifestDescribesWhatShips, Work, Rewritable
  <2>5. CASE stage' = "failed"
    BY <2>5 DEF ManifestInv, ManifestDescribesWhatShips
  <2> QED
    BY <2>1, <2>3, <2>4, <2>5
<1>8. CASE BeginCompact
  <2>1. stage = "compact" /\ stage' = "replace" /\ UNCHANGED <<source, copier, touched>>
        /\ out' = [out EXCEPT !.compacting = TRUE]
    BY <1>8 DEF BeginCompact
  <2>2. out'.data = out.data
    BY <2>1 DEF PreparedInv, IsOut
  <2> QED
    BY <2>1, <2>2 DEF ManifestInv, ManifestDescribesWhatShips, Rewritable
<1>9. CASE Replace
  <2> DEFINE f == out.data.warehouse
             g == [f EXCEPT !.compact = TRUE]
  <2>1. stage = "replace" /\ stage' \in {"failed", "lakehouse"} /\ UNCHANGED <<source, copier, touched>>
        /\ out' = [out EXCEPT !.data.warehouse.compact = TRUE, !.compacting = FALSE]
    BY <1>9 DEF Replace
  <2>2. out'.data.warehouse = g /\ out'.compacting = FALSE
    BY <2>1 DEF PreparedInv, IsOut
  <2>3. IsFile(f)
    BY <2>1 DEF PreparedInv
  <2>4. g.compact = TRUE /\ g.rels = f.rels
    BY <2>3 DEF IsFile
  <2> HIDE DEF g
  <2> QED
    BY <2>1, <2>2, <2>4 DEF ManifestInv, ManifestDescribesWhatShips, Rewritable
<1>10. CASE PublishLakehouse
  <2>1. stage = "lakehouse" /\ UNCHANGED <<source, copier, touched>>
        /\ \/ stage' = "failed"
           \/ stage' = "tables" /\ out' = IF ShippedLake = 0 THEN out
                                       ELSE [out EXCEPT !.data.lakehouse = ShippedLake]
    BY <1>10 DEF PublishLakehouse
  <2>2. CASE stage' = "failed"
    BY <2>2 DEF ManifestInv, ManifestDescribesWhatShips
  <2>3. CASE stage' = "tables"
    <3>1. /\ out'.data.warehouse = out.data.warehouse /\ out'.compacting = out.compacting
          /\ ShippedLake # 0 => out'.data.lakehouse = ShippedLake
      BY <2>1, <2>3 DEF PreparedInv, IsOut
    <3>2. ShippedLake' = ShippedLake
      BY <2>1 DEF ShippedLake
    <3> QED
      BY <2>1, <2>3, <3>1, <3>2 DEF ManifestInv, ManifestDescribesWhatShips, Rewritable, LakeIsThere
  <2> QED
    BY <2>1, <2>2, <2>3
<1>11. CASE ExportTables
  <2> DEFINE made == Parquet(out.data.warehouse)
             held == out.data.tables
             all == [r \in DOMAIN held \cup DOMAIN made |-> IF r \in DOMAIN made THEN made[r] ELSE held[r]]
  <2>1. stage = "tables" /\ stage' = "manifest" /\ UNCHANGED <<source, copier, touched>>
        /\ out' = [out EXCEPT !.data.tables = all]
    BY <1>11 DEF ExportTables
  <2>2. \A r \in DOMAIN made : all[r] = made[r]
    <3> HIDE DEF made
    <3> QED
      OBVIOUS
  <2>3. out'.data.warehouse = out.data.warehouse /\ out'.data.lakehouse = out.data.lakehouse
        /\ out'.data.tables = all /\ out'.compacting = out.compacting
    <3> HIDE DEF all
    <3> QED
      BY <2>1 DEF PreparedInv, IsOut
  <2>4. ShippedLake' = ShippedLake
    BY <2>1 DEF ShippedLake
  <2>5. ParquetIsThere'
    BY <2>2, <2>3 DEF ParquetIsThere
  <2> HIDE DEF all, made
  <2> QED
    BY <2>1, <2>3, <2>4, <2>5 DEF ManifestInv, ManifestDescribesWhatShips, Rewritable, LakeIsThere
<1>12. CASE WriteManifest
  <2>1. stage = "manifest" /\ stage' = "sums" /\ UNCHANGED <<source, copier, touched>>
        /\ out' = [out EXCEPT !.manifest = Manifest]
    BY <1>12 DEF WriteManifest
  <2>2. out'.data = out.data /\ out'.manifest = Manifest /\ out'.compacting = out.compacting
    BY <2>1 DEF PreparedInv, IsOut
  <2>3. ShippedLake' = ShippedLake
    BY <2>1 DEF ShippedLake
  <2>4. Manifest' = Manifest
    BY <2>1, <2>2, <2>3 DEF Manifest
  <2> QED
    BY <2>1, <2>2, <2>3, <2>4
    DEF ManifestInv, ManifestDescribesWhatShips, Rewritable, LakeIsThere, ParquetIsThere
<1>13. CASE WriteSums
  <2>1. stage' = "done"
    BY <1>13 DEF WriteSums
  <2> QED
    BY <1>13, <2>1, SummedAndDescribed DEF ManifestInv
<1>14. CASE Die
  <2>1. stage' = "failed"
    BY <1>14 DEF Die
  <2> QED
    BY <2>1 DEF ManifestInv, ManifestDescribesWhatShips
<1>15. CASE UploadCopy \/ UNCHANGED exportVars
  <2>1. UNCHANGED <<source, copier, stage, out, artifact, touched>>
    BY <1>15 DEF UploadCopy, exportVars
  <2>2. Work' = Work /\ ShippedLake' = ShippedLake /\ Copying' = Copying
    BY <2>1 DEF Work, ShippedLake, Copying
  <2>3. Manifest' = Manifest
    BY <2>1, <2>2 DEF Manifest
  <2> QED
    BY <2>1, <2>2, <2>3 DEF ManifestInv, ManifestDescribesWhatShips, SumsMatch, LakeIsThere,
                            ParquetIsThere, Rewritable
<1> QED
  BY <1>1, <1>2, <1>3, <1>4, <1>5, <1>6, <1>7, <1>8, <1>9, <1>10, <1>11, <1>12, <1>13, <1>14, <1>15
  DEF ExportNext

\* For any relations, whatever earlier attempts left in the directory and wherever they
\* stopped: a finished export's manifest is of the files beside it, and its checksums pass
\* (export, write_manifest).
THEOREM FinishedExportsAreDescribed == ExportSpec => []ManifestDescribesWhatShips
<1>1. ManifestInv => ManifestDescribesWhatShips
  BY DEF ManifestInv
<1> QED
  BY <1>1, PreparedInit, PreparedStep, ManifestInit, ManifestStep, PTL DEF ExportSpec

-----------------------------------------------------------------------------
(* THE CHAIN OF RELEASES. What is carried and how far the tables shrink, as   *)
(* long as no upload stops half way; the run history, wherever one does.      *)

Carrying == {"carried", "built", "packaged", "verified", "publishing"}

HoldsAll(r) ==
  /\ published.warehouse \subseteq r.warehouse
  /\ published.lakehouse \subseteq r.lakehouse

\* A job holds everything published from its carry on; the newest release holds
\* it too except while its own assets are being replaced; and what such a job
\* has uploaded is what it built.
ChainInv ==
  /\ listed = <<>> => published.warehouse = {} /\ published.lakehouse = {}
  /\ (listed # <<>> /\ (pc = "publishing" => tag # Newest)) => HoldsAll(releases[Newest])
  /\ pc \in Carrying => HoldsAll(built)
  /\ pc = "publishing" => \A asset \in Assets \ todo : releases[tag][asset] = built[asset]

IInv == TypeOK /\ (~interrupted => ChainInv)

-----------------------------------------------------------------------------
(* Types. *)

Holdings == [warehouse : SUBSET Jobs, lakehouse : SUBSET Stretches, manifest : Manifests]

\* What a job carries in can be counted.
LEMMA CountsAreNumbers ==
  ASSUME NEW S, S \in SUBSET Jobs \/ S \in SUBSET Stretches
  PROVE  IsFiniteSet(S) /\ Cardinality(S) \in Nat
<1>1. IsFiniteSet(Jobs) /\ IsFiniteSet(Stretches)
  <2>1. LastDay \in Int /\ MaxJobs \in Int
    BY ReleaseAssumption
  <2> QED
    BY <2>1, FS_Interval DEF Jobs, Stretches
<1>2. IsFiniteSet(S)
  BY <1>1, FS_Subset
<1> QED
  BY <1>2, FS_CardinalityType

LEMMA TabulatedIsAManifest ==
  ASSUME NEW b \in Builds, NEW archive \in SUBSET Stretches
  PROVE  Tabulated(b, archive) \in Manifests
BY DEF Manifests

LEMMA NoAssetsIsTyped == NoAssets \in Holdings
BY DEF NoAssets, Holdings, Manifests

LEMMA NewestIsATag ==
  TypeOK /\ listed # <<>> => Newest \in Days
BY DEF TypeOK, Newest, Last

\* An asset replaced by a release's own leaves a release.
LEMMA ReplacedAsset ==
  ASSUME NEW R \in [Tags -> Holdings], NEW t \in Tags \cup {Nobody}, NEW asset \in Assets,
         NEW h \in Holdings
  PROVE  [R EXCEPT ![t][asset] = h[asset]] \in [Tags -> Holdings]
<1>1. CASE asset = "warehouse"
  BY <1>1 DEF Holdings
<1>2. CASE asset = "lakehouse"
  BY <1>2 DEF Holdings
<1>3. CASE asset = "manifest"
  BY <1>3 DEF Holdings
<1> QED
  BY <1>1, <1>2, <1>3 DEF Assets

\* The release found at the start, or none.
LEMMA FirstRelease ==
  Init => \E first \in Holdings :
            /\ releases = [r \in Tags |-> IF r = FirstDay THEN first ELSE NoAssets]
            /\ listed = IF first = NoAssets THEN <<>> ELSE <<FirstDay>>
            /\ published = [warehouse |-> first.warehouse, lakehouse |-> first.lakehouse]
            /\ standing = first.manifest
<1> DEFINE Found(l, b) ==
      [warehouse |-> {0}, lakehouse |-> l, manifest |-> Tabulated(b, 0 .. FirstDay)]
<1>1. 0 .. FirstDay \in SUBSET Stretches /\ {0} \in SUBSET Jobs
  BY ReleaseAssumption DEF Stretches, Jobs
<1>2. ASSUME NEW l \in {{}, 0 .. FirstDay}, NEW b \in Builds PROVE Found(l, b) \in Holdings
  <2>1. l \in SUBSET Stretches /\ Tabulated(b, 0 .. FirstDay) \in Manifests
    BY <1>1, TabulatedIsAManifest
  <2> QED
    BY <1>1, <2>1 DEF Holdings
<1>3. {NoAssets} \cup {Found(l, b) : l \in {{}, 0 .. FirstDay}, b \in Builds} \subseteq Holdings
  <2> HIDE DEF Found
  <2> QED BY <1>2, NoAssetsIsTyped
<1> QED
  BY <1>3 DEF Init

LEMMA TypeInit == Init => TypeOK
<1> SUFFICES ASSUME Init PROVE TypeOK
  OBVIOUS
<1>1. PICK first \in Holdings :
       /\ releases = [r \in Tags |-> IF r = FirstDay THEN first ELSE NoAssets]
       /\ listed = IF first = NoAssets THEN <<>> ELSE <<FirstDay>>
       /\ published = [warehouse |-> first.warehouse, lakehouse |-> first.lakehouse]
       /\ standing = first.manifest
  BY FirstRelease
<1>3. releases \in [Tags -> Holdings]
  BY <1>1, NoAssetsIsTyped
<1>4. listed \in Seq(Days) /\ IsInjective(listed)
  <2>1. FirstDay \in Days
    BY ReleaseAssumption DEF Days
  <2>2. CASE listed = <<>>
    BY <2>2 DEF IsInjective
  <2>3. CASE listed = <<FirstDay>>
    <3>1. listed \in Seq(Days) /\ DOMAIN listed = {1}
      BY <2>1, <2>3
    <3> QED BY <3>1 DEF IsInjective
  <2> QED BY <1>1, <2>2, <2>3
<1>5. /\ published \in [warehouse : SUBSET Jobs, lakehouse : SUBSET Stretches]
      /\ standing \in Manifests
  BY <1>1 DEF Holdings
<1>6. /\ day \in Days /\ job \in Jobs
      /\ restored \in [warehouse : Nat, lakehouse : Nat]
  BY ReleaseAssumption DEF Init, Days, Jobs
<1>7. /\ pc = "idle" /\ accept = FALSE /\ prev = Nobody /\ tag = Nobody
      /\ todo = {} /\ built = NoAssets /\ interrupted = FALSE
  BY DEF Init
<1>8. built \in [warehouse : SUBSET Jobs, lakehouse : SUBSET Stretches, manifest : Manifests]
  BY <1>7, NoAssetsIsTyped DEF Holdings
<1>9. releases \in [Tags -> [warehouse : SUBSET Jobs, lakehouse : SUBSET Stretches,
                              manifest : Manifests]]
  BY <1>3 DEF Holdings
<1> QED
  BY <1>4, <1>5, <1>6, <1>7, <1>8, <1>9 DEF TypeOK

\* An ended job leaves nothing on its runner.
LEMMA EndedIsTyped ==
  EndJob => /\ pc' = "idle" /\ accept' = FALSE /\ prev' = Nobody /\ tag' = Nobody /\ todo' = {}
            /\ built' \in [warehouse : SUBSET Jobs, lakehouse : SUBSET Stretches,
                           manifest : Manifests]
            /\ restored' \in [warehouse : Nat, lakehouse : Nat]
BY NoAssetsIsTyped DEF EndJob, Holdings

LEMMA TypeNext == TypeOK /\ [Next]_vars => TypeOK'
<1> SUFFICES ASSUME TypeOK, [Next]_vars PROVE TypeOK'
  OBVIOUS
<1>1. CASE NewDay
  BY <1>1, ReleaseAssumption DEF TypeOK, NewDay, github, aux, Days
<1>2. ASSUME NEW mayDrop \in BOOLEAN, NEW typed \in TypedTags \cup {Nobody},
             StartJob(mayDrop, typed)
      PROVE  TypeOK'
  <2>1. typed \in Tags \cup {Nobody}
    BY ReleaseAssumption DEF Tags, Nobody, Elsewhere, Days
  <2> QED
    BY <1>2, <2>1, ReleaseAssumption
    DEF TypeOK, StartJob, github, aux, Jobs
<1>3. CASE Carry
  <2>1. built' \in Holdings /\ prev' \in Days \cup {Nobody}
    BY <1>3, NewestIsATag DEF TypeOK, Carry, Holdings, Tags
  <2>2. restored' \in [warehouse : Nat, lakehouse : Nat]
    BY <1>3, <2>1, CountsAreNumbers DEF Carry, Holdings
  <2> QED
    BY <1>3, <2>1, <2>2 DEF TypeOK, Carry, github, aux, Holdings
<1>4. ASSUME NEW stretch \in Backfills, Refetch(stretch) PROVE TypeOK'
  BY <1>4, ReleaseAssumption DEF TypeOK, Refetch, github, aux
<1>5. ASSUME NEW tables \in Builds, Build(tables) PROVE TypeOK'
  <2> DEFINE archive == built.lakehouse \cup Fetched(built.lakehouse)
  <2>1. archive \in SUBSET Stretches
    BY DEF TypeOK, Fetched
  <2>2. built' = [warehouse |-> built.warehouse \cup {job}, lakehouse |-> archive,
                  manifest |-> Tabulated(tables, archive)]
    BY <1>5 DEF Build
  <2>3. Tabulated(tables, archive) \in Manifests
    BY <2>1, TabulatedIsAManifest
  <2> HIDE DEF archive
  <2>4. built' \in [warehouse : SUBSET Jobs, lakehouse : SUBSET Stretches, manifest : Manifests]
    BY <2>1, <2>2, <2>3 DEF TypeOK
  <2> QED
    BY <1>5, <2>4 DEF TypeOK, Build, github, aux
<1>6. CASE Package
  BY <1>6, ReleaseAssumption DEF TypeOK, Package, github, aux, Tags, Days, Nobody
<1>7. CASE Verify
  BY <1>7 DEF TypeOK, Verify, github, aux
<1>8. CASE Compare
  <2>1. tag \in Tags
    BY <1>8 DEF Compare, TypeOK
  <2>2. listed' \in Seq(Days) /\ IsInjective(listed)'
    <3>1. CASE tag = Elsewhere \/ Contains(listed, tag)
      BY <1>8, <3>1 DEF Compare, TypeOK, IsInjective
    <3>2. CASE ~(tag = Elsewhere \/ Contains(listed, tag))
      <4>1. tag \in Days /\ listed' = Append(listed, tag)
        BY <1>8, <2>1, <3>2 DEF Compare, Tags
      <4>2. \A i \in 1 .. Len(listed) : listed[i] # tag
        BY <3>2 DEF Contains
      <4> QED
        BY <4>1, <4>2 DEF TypeOK, IsInjective
    <3> QED BY <3>1, <3>2
  <2> QED
    BY <1>8, <2>1, <2>2 DEF TypeOK, Compare, aux
<1>9. CASE Fail
  BY <1>9, EndedIsTyped DEF TypeOK, Fail, github, aux
<1>10. ASSUME NEW asset \in Assets, Delete(asset) PROVE TypeOK'
  <2>1. releases' \in [Tags -> Holdings]
    BY <1>10, NoAssetsIsTyped, ReplacedAsset DEF Delete, TypeOK, Holdings
  <2> QED
    BY <1>10, <2>1 DEF TypeOK, Delete, aux, Holdings
<1>11. ASSUME NEW asset \in Assets, Upload(asset) PROVE TypeOK'
  <2>1. releases' \in [Tags -> Holdings]
    BY <1>11, ReplacedAsset DEF Upload, TypeOK, Holdings
  <2> QED
    BY <1>11, <2>1 DEF TypeOK, Upload, aux, Holdings
<1>12. CASE Finish
  <2>1. /\ published' \in [warehouse : SUBSET Jobs, lakehouse : SUBSET Stretches]
        /\ standing' \in Manifests /\ interrupted' \in BOOLEAN
    BY <1>12 DEF TypeOK, Finish, Stands, aux
  <2> QED
    BY <1>12, <2>1, EndedIsTyped DEF TypeOK, Finish, github
<1>13. CASE Interrupt
  BY <1>13, EndedIsTyped DEF TypeOK, Interrupt, github, aux
<1>14. CASE UNCHANGED vars
  BY <1>14 DEF vars, TypeOK
<1> QED
  BY <1>1, <1>2, <1>3, <1>4, <1>5, <1>6, <1>7, <1>8, <1>9, <1>10, <1>11, <1>12,
     <1>13, <1>14 DEF Next

\* Every variable keeps its type, uploads that stop half way included.
THEOREM TypeCorrect == Spec => []TypeOK
BY TypeInit, TypeNext, PTL DEF Spec

-----------------------------------------------------------------------------
(* The chain. *)

LEMMA ChainInit == Init => ChainInv
<1> SUFFICES ASSUME Init PROVE ChainInv
  OBVIOUS
<1>1. PICK first \in Holdings :
       /\ releases = [r \in Tags |-> IF r = FirstDay THEN first ELSE NoAssets]
       /\ listed = IF first = NoAssets THEN <<>> ELSE <<FirstDay>>
       /\ published = [warehouse |-> first.warehouse, lakehouse |-> first.lakehouse]
  BY FirstRelease
<1>2. pc = "idle"
  BY DEF Init
<1>3. CASE first = NoAssets
  BY <1>1, <1>2, <1>3 DEF ChainInv, Carrying, NoAssets
<1>4. CASE first # NoAssets
  <2>1. listed = <<FirstDay>> /\ Newest = FirstDay
    BY <1>1, <1>4 DEF Newest, Last
  <2>2. releases[FirstDay] = first
    BY <1>1, ReleaseAssumption DEF Tags, Days
  <2>3. HoldsAll(releases[Newest])
    BY <1>1, <2>1, <2>2 DEF HoldsAll
  <2> QED
    BY <1>2, <2>1, <2>3 DEF ChainInv, Carrying
<1> QED
  BY <1>3, <1>4

\* Steps that touch neither the releases nor what was published.
LEMMA AwayFromTheReleases ==
  ASSUME TypeOK, ChainInv, UNCHANGED <<listed, releases, published>>,
         pc # "publishing", pc' # "publishing",
         pc' \in Carrying => HoldsAll(built')
  PROVE  ChainInv'
<1>1. HoldsAll(built)' = HoldsAll(built') /\ Newest' = Newest
  BY DEF HoldsAll, Newest
<1>2. HoldsAll(releases[Newest])' = HoldsAll(releases[Newest])
  BY DEF HoldsAll, Newest
<1> QED
  BY <1>1, <1>2 DEF ChainInv

LEMMA CarryKeepsChain == TypeOK /\ ChainInv /\ Carry => ChainInv'
<1> SUFFICES ASSUME TypeOK, ChainInv, Carry PROVE ChainInv'
  OBVIOUS
<1>1. CASE listed = <<>>
  <2>1. HoldsAll(built')
    BY <1>1 DEF ChainInv, HoldsAll
  <2> QED
    BY <2>1, AwayFromTheReleases DEF Carry, github, aux
<1>2. CASE listed # <<>>
  <2>1. HoldsAll(releases[Newest])
    BY <1>2 DEF ChainInv, Carry
  <2>2. built'.warehouse = releases[Newest].warehouse
        /\ built'.lakehouse = releases[Newest].lakehouse
    BY <1>2 DEF Carry, TypeOK
  <2>3. HoldsAll(built')
    BY <2>1, <2>2 DEF HoldsAll
  <2> QED
    BY <2>3, AwayFromTheReleases DEF Carry, github, aux
<1> QED
  BY <1>1, <1>2

LEMMA CompareKeepsChain == TypeOK /\ ChainInv /\ Compare => ChainInv'
<1> SUFFICES ASSUME TypeOK, ChainInv, Compare PROVE ChainInv'
  OBVIOUS
<1>1. pc = "verified" /\ pc' = "publishing" /\ todo' = Assets
  BY DEF Compare
<1>2. UNCHANGED <<releases, built, tag, published>>
  BY DEF Compare, aux
<1>3. HoldsAll(built)'
  BY <1>1, <1>2 DEF ChainInv, Carrying, HoldsAll
<1>4. listed' = <<>> => published'.warehouse = {} /\ published'.lakehouse = {}
  BY <1>2 DEF Compare, ChainInv, TypeOK
<1>5. ASSUME listed' # <<>>, tag' # Newest' PROVE HoldsAll(releases[Newest])'
  <2>1. listed' = listed
    <3>1. tag = Elsewhere \/ Contains(listed, tag) \/ listed' = Append(listed, tag)
      BY DEF Compare
    <3>2. CASE listed' = Append(listed, tag)
      BY <1>2, <1>5, <3>2 DEF Newest, Last, TypeOK
    <3> QED BY <3>1, <3>2 DEF Compare
  <2>2. HoldsAll(releases[Newest])
    BY <1>1, <1>5, <2>1 DEF ChainInv
  <2> QED
    BY <1>2, <2>1, <2>2 DEF HoldsAll, Newest
<1> QED
  BY <1>1, <1>3, <1>4, <1>5 DEF ChainInv

\* A job replaces assets of its own tag only, one still to come at a time.
LEMMA UploadKeepsChain ==
  ASSUME TypeOK, ChainInv, NEW asset \in Assets, Delete(asset) \/ Upload(asset)
  PROVE  ChainInv'
<1>1. pc = "publishing" /\ pc' = "publishing" /\ tag \in Tags /\ asset \in todo
  BY DEF Delete, Upload, TypeOK
<1>2. UNCHANGED <<listed, built, tag, published>>
  BY DEF Delete, Upload, aux
<1>3. \A t \in Tags \ {tag} : releases'[t] = releases[t]
  BY <1>1 DEF Delete, Upload, TypeOK
<1>4. \A a \in Assets \ {asset} : releases'[tag][a] = releases[tag][a]
  BY <1>1 DEF Delete, Upload, TypeOK, Assets
<1>5. \A a \in Assets \ todo' : releases'[tag][a] = built[a]
  <2>1. CASE Delete(asset)
    BY <1>1, <1>4, <2>1 DEF Delete, ChainInv
  <2>2. CASE Upload(asset)
    <3>1. releases'[tag][asset] = built[asset]
      BY <1>1, <2>2 DEF Upload, TypeOK, Assets
    <3> QED
      BY <1>1, <1>4, <2>2, <3>1 DEF Upload, ChainInv
  <2> QED BY <2>1, <2>2
<1>6. ASSUME listed' # <<>>, tag' # Newest' PROVE HoldsAll(releases[Newest])'
  <2>1. listed # <<>> /\ tag # Newest /\ Newest' = Newest
    BY <1>2, <1>6 DEF Newest
  <2>2. Newest \in Tags \ {tag} /\ HoldsAll(releases[Newest])
    BY <2>1, NewestIsATag DEF Tags, ChainInv
  <2> QED
    BY <1>2, <1>3, <2>1, <2>2 DEF HoldsAll
<1> QED
  BY <1>1, <1>2, <1>5, <1>6 DEF ChainInv, HoldsAll

\* The newest release, finished, is what its job built on top of all the others.
LEMMA FinishKeepsChain == TypeOK /\ ChainInv /\ Finish => ChainInv'
<1> SUFFICES ASSUME TypeOK, ChainInv, Finish PROVE ChainInv'
  OBVIOUS
<1>1. pc = "publishing" /\ pc' = "idle" /\ UNCHANGED <<listed, releases>>
  BY DEF Finish, EndJob, github
<1>2. CASE listed # <<>> /\ tag = Newest
  <2>1. \A asset \in Assets : releases[Newest][asset] = built[asset]
    BY <1>2 DEF Finish, ChainInv
  <2>2. releases[Newest].warehouse = built.warehouse
        /\ releases[Newest].lakehouse = built.lakehouse
    BY <2>1 DEF Assets
  <2>3. published'.warehouse = published.warehouse \cup built.warehouse
        /\ published'.lakehouse = published.lakehouse \cup built.lakehouse
    BY <1>2 DEF Finish, Stands
  <2>4. HoldsAll(built)
    BY <1>1 DEF ChainInv, Carrying
  <2>5. HoldsAll(releases[Newest])'
    BY <1>1, <2>2, <2>3, <2>4 DEF HoldsAll, Newest
  <2> QED
    BY <1>1, <1>2, <2>5 DEF ChainInv, Carrying
<1>3. CASE ~(listed # <<>> /\ tag = Newest)
  <2>1. UNCHANGED published
    BY <1>3 DEF Finish, Stands, aux
  <2>2. listed # <<>> => HoldsAll(releases[Newest])
    BY <1>1, <1>3 DEF ChainInv
  <2>3. (listed # <<>> => HoldsAll(releases[Newest]))'
    BY <1>1, <2>1, <2>2 DEF HoldsAll, Newest
  <2> QED
    BY <1>1, <2>1, <2>3 DEF ChainInv, Carrying
<1> QED
  BY <1>2, <1>3

LEMMA ChainNext ==
  ASSUME ~interrupted', TypeOK, ChainInv, [Next]_vars
  PROVE  ChainInv'
<1>1. CASE NewDay
  BY <1>1 DEF NewDay, github, aux, ChainInv, HoldsAll, Newest
<1>2. ASSUME NEW mayDrop \in BOOLEAN, NEW typed \in TypedTags \cup {Nobody},
             StartJob(mayDrop, typed)
      PROVE  ChainInv'
  BY <1>2, AwayFromTheReleases DEF StartJob, github, aux, Carrying
<1>3. CASE Carry
  BY <1>3, CarryKeepsChain
<1>4. ASSUME NEW stretch \in Backfills, Refetch(stretch) PROVE ChainInv'
  <2>1. HoldsAll(built')
    BY <1>4 DEF Refetch, ChainInv, Carrying, HoldsAll, TypeOK
  <2> QED
    BY <1>4, <2>1, AwayFromTheReleases DEF Refetch, github, aux
<1>5. ASSUME NEW tables \in Builds, Build(tables) PROVE ChainInv'
  <2>1. HoldsAll(built')
    BY <1>5 DEF Build, ChainInv, Carrying, HoldsAll
  <2> QED
    BY <1>5, <2>1, AwayFromTheReleases DEF Build, github, aux
<1>6. CASE Package
  <2>1. HoldsAll(built')
    BY <1>6 DEF Package, ChainInv, Carrying, HoldsAll
  <2> QED
    BY <1>6, <2>1, AwayFromTheReleases DEF Package, github, aux
<1>7. CASE Verify
  <2>1. HoldsAll(built')
    BY <1>7 DEF Verify, ChainInv, Carrying, HoldsAll
  <2> QED
    BY <1>7, <2>1, AwayFromTheReleases DEF Verify, github, aux
<1>8. CASE Compare
  BY <1>8, CompareKeepsChain
<1>9. CASE Fail
  BY <1>9, AwayFromTheReleases DEF Fail, EndJob, github, aux, Carrying
<1>10. ASSUME NEW asset \in Assets, Delete(asset) \/ Upload(asset) PROVE ChainInv'
  BY <1>10, UploadKeepsChain
<1>11. CASE Finish
  BY <1>11, FinishKeepsChain
<1>12. CASE Interrupt
  BY <1>12 DEF Interrupt
<1>13. CASE UNCHANGED vars
  BY <1>13 DEF vars, ChainInv, HoldsAll, Newest
<1> QED
  BY <1>1, <1>2, <1>3, <1>4, <1>5, <1>6, <1>7, <1>8, <1>9, <1>10, <1>11, <1>12,
     <1>13 DEF Next

\* An upload that stopped half way stays in the behaviour's past.
LEMMA OnceInterrupted == TypeOK /\ [Next]_vars /\ interrupted => interrupted'
<1> SUFFICES ASSUME TypeOK, [Next]_vars, interrupted PROVE interrupted'
  OBVIOUS
<1>1. CASE UNCHANGED vars
  BY <1>1 DEF vars
<1>2. CASE Finish
  BY <1>2 DEF Finish, Stands, aux
<1>3. CASE Interrupt
  BY <1>3 DEF Interrupt
<1>4. ASSUME Next, ~Finish, ~Interrupt PROVE interrupted' = interrupted
  BY <1>4 DEF Next, NewDay, StartJob, Carry, Refetch, Build, Package, Verify, Compare, Fail,
              Delete, Upload, aux
<1> QED
  BY <1>1, <1>2, <1>3, <1>4

\* Until an upload stops half way, between jobs the newest release holds every run
\* and every weather day a newest release was ever finished with.
THEOREM NothingIsDropped == Spec => []CarriedStateOnlyGrows
<1>1. Init => IInv
  BY TypeInit, ChainInit DEF IInv
<1>2. IInv /\ [Next]_vars => IInv'
  BY TypeNext, ChainNext, OnceInterrupted DEF IInv
<1>3. IInv => CarriedStateOnlyGrows
  BY DEF IInv, ChainInv, HoldsAll, CarriedStateOnlyGrows
<1> QED
  BY <1>1, <1>2, <1>3, PTL DEF Spec

-----------------------------------------------------------------------------
(* The tables. *)

\* A nonempty set of numbers has a least.
LEMMA NatHasMin ==
  ASSUME NEW S \in SUBSET Nat, S # {}
  PROVE  Min(S) \in S /\ \A x \in S : Min(S) <= x
<1>1. IsWellFoundedOn(OpToRel(<, Nat), Nat)
  BY NatLessThanWellFounded
<1>2. PICK m \in S : \A y \in S : ~(<<y, m>> \in OpToRel(<, Nat))
  BY <1>1, WFMin
<1>3. \A y \in S : ~(y < m)
  BY <1>2 DEF OpToRel
<1>4. m \in S /\ \A y \in S : m <= y
  BY <1>3
<1> QED
  BY <1>4 DEF Min

\* A nonempty set of stretches has a first and a last: the last is as far from
\* LastDay as the nearest.
LEMMA YearsHaveEnds ==
  ASSUME NEW S \in SUBSET Stretches, S # {}
  PROVE  /\ Min(S) \in S /\ \A x \in S : Min(S) <= x
         /\ Max(S) \in S /\ \A x \in S : x <= Max(S)
<1>1. S \in SUBSET Nat /\ LastDay \in Nat /\ \A x \in S : x <= LastDay
  BY ReleaseAssumption DEF Stretches
<1> DEFINE T == {LastDay - x : x \in S}
<1>2. T \in SUBSET Nat /\ T # {}
  <2>1. \A x \in S : LastDay - x \in Nat
    BY <1>1
  <2> QED BY <2>1
<1>3. Min(T) \in T /\ \A y \in T : Min(T) <= y
  <2> HIDE DEF T
  <2> QED BY <1>2, NatHasMin
<1>4. PICK m \in S : Min(T) = LastDay - m
  BY <1>3
<1>5. ASSUME NEW x \in S PROVE m >= x
  <2>1. Min(T) <= LastDay - x
    BY <1>3
  <2> QED
    BY <1>1, <1>4, <2>1
<1> QED
  BY <1>1, <1>5, NatHasMin DEF Max

\* What DropsAreAccepted says of two manifests.
Kept(earlier, later) ==
  \A t \in (DOMAIN earlier \cap DOMAIN later) \ Exempt :
    LET old == earlier[t]
        new == later[t]
    IN /\ (Cardinality(old) - Cardinality(new)) * 100 <= MaxDrop * Cardinality(old)
       /\ \A y \in old : \E first, last \in new : first <= y /\ y <= last

LEMMA YearsOfATable ==
  ASSUME NEW manifest \in Manifests, NEW t \in DOMAIN manifest
  PROVE  manifest[t] \in SUBSET Stretches
<1>1. manifest # <<>>
  OBVIOUS
<1>2. PICK b \in Builds, archive \in SUBSET Stretches : manifest = Tabulated(b, archive)
  BY <1>1 DEF Manifests
<1>3. \A u \in DOMAIN b : b[u] \in SUBSET Stretches
  BY ReleaseAssumption
<1> QED
  BY <1>2, <1>3 DEF Tabulated

\* A release without a loss keeps rows and years.
LEMMA NothingLostIsKept ==
  ASSUME NEW earlier \in Manifests, NEW later \in Manifests, Lost(earlier, later) = {}
  PROVE  Kept(earlier, later)
<1> SUFFICES ASSUME NEW t \in (DOMAIN earlier \cap DOMAIN later) \ Exempt
             PROVE  /\ (Cardinality(earlier[t]) - Cardinality(later[t])) * 100
                         <= MaxDrop * Cardinality(earlier[t])
                    /\ \A y \in earlier[t] : \E first, last \in later[t] : first <= y /\ y <= last
  BY DEF Kept
<1>1. earlier[t] \in SUBSET Stretches /\ later[t] \in SUBSET Stretches
  BY YearsOfATable
<1>2. Cardinality(earlier[t]) \in Nat /\ Cardinality(later[t]) \in Nat /\ MaxDrop \in Nat
  BY <1>1, CountsAreNumbers, ReleaseAssumption
<1>3. ~Dropped(earlier[t], later[t]) /\ ~Narrowed(earlier[t], later[t])
  BY DEF Lost
<1>4. CASE earlier[t] = {}
  <2>1. Cardinality(earlier[t]) = 0
    BY <1>4, FS_EmptySet
  <2> QED
    BY <1>2, <1>4, <2>1
<1>5. CASE earlier[t] # {}
  <2>1. (Cardinality(earlier[t]) - Cardinality(later[t])) * 100 <= MaxDrop * Cardinality(earlier[t])
    BY <1>2, <1>3, <1>5 DEF Dropped
  <2>2. /\ later[t] # {}
        /\ ~(Min(later[t]) > Min(earlier[t])) /\ ~(Max(later[t]) < Max(earlier[t]))
    BY <1>3, <1>5 DEF Narrowed
  <2>3. \A y \in earlier[t] : Min(later[t]) <= y /\ y <= Max(later[t])
    BY <1>1, <1>5, <2>2, YearsHaveEnds, ReleaseAssumption DEF Stretches
  <2> QED
    BY <1>1, <2>1, <2>2, <2>3, YearsHaveEnds
<1> QED
  BY <1>4, <1>5

LEMMA SameIsKept ==
  ASSUME NEW manifest \in Manifests
  PROVE  Kept(manifest, manifest)
<1> SUFFICES ASSUME NEW t \in DOMAIN manifest
             PROVE  /\ (Cardinality(manifest[t]) - Cardinality(manifest[t])) * 100
                         <= MaxDrop * Cardinality(manifest[t])
                    /\ \A y \in manifest[t] :
                         \E first, last \in manifest[t] : first <= y /\ y <= last
  BY DEF Kept
<1>1. manifest[t] \in SUBSET Stretches
  BY YearsOfATable
<1>2. Cardinality(manifest[t]) \in Nat /\ MaxDrop \in Nat
  BY <1>1, CountsAreNumbers, ReleaseAssumption
<1>3. MaxDrop * Cardinality(manifest[t]) >= 0
  BY <1>2
<1> QED
  BY <1>1, <1>2, <1>3 DEF Stretches

\* A job carries from the newest release, which has the tables that stand
\* except while its own assets are being replaced: what Compare compared with is
\* what a reader finds, up to the upload.
VolumeInv ==
  /\ listed = <<>> => standing = <<>>
  /\ (listed # <<>> /\ (pc = "publishing" => tag # Newest))
       => releases[Newest].manifest = standing
  /\ pc \in Carrying \ {"publishing"}
       => prev = IF listed = <<>> THEN Nobody ELSE Newest
  /\ pc = "publishing" => (Lost(standing, built.manifest) # {} => accept)
  /\ pc = "publishing" => \A asset \in Assets \ todo : releases[tag][asset] = built[asset]

LEMMA VolumeInit == Init => VolumeInv
<1> SUFFICES ASSUME Init PROVE VolumeInv
  OBVIOUS
<1>1. PICK first \in Holdings :
       /\ releases = [r \in Tags |-> IF r = FirstDay THEN first ELSE NoAssets]
       /\ listed = IF first = NoAssets THEN <<>> ELSE <<FirstDay>>
       /\ standing = first.manifest
  BY FirstRelease
<1>2. pc = "idle"
  BY DEF Init
<1>3. CASE first = NoAssets
  BY <1>1, <1>2, <1>3 DEF VolumeInv, Carrying, NoAssets
<1>4. CASE first # NoAssets
  <2>1. listed = <<FirstDay>> /\ Newest = FirstDay
    BY <1>1, <1>4 DEF Newest, Last
  <2>2. releases[FirstDay] = first
    BY <1>1, ReleaseAssumption DEF Tags, Days
  <2> QED
    BY <1>1, <1>2, <2>1, <2>2 DEF VolumeInv, Carrying
<1> QED
  BY <1>3, <1>4

\* Steps that touch neither the releases nor what stands.
LEMMA VolumeAwayFromTheReleases ==
  ASSUME VolumeInv, UNCHANGED <<listed, releases, standing>>,
         pc # "publishing", pc' # "publishing",
         pc' \in Carrying => prev' = IF listed = <<>> THEN Nobody ELSE Newest
  PROVE  VolumeInv'
BY DEF VolumeInv, Newest

\* The release compared with is the newest one still: jobs run one at a time.
LEMMA CompareKeepsVolume == TypeOK /\ VolumeInv /\ Compare => VolumeInv'
<1> SUFFICES ASSUME TypeOK, VolumeInv, Compare PROVE VolumeInv'
  OBVIOUS
<1>1. pc = "verified" /\ pc' = "publishing" /\ todo' = Assets
  BY DEF Compare
<1>2. UNCHANGED <<releases, built, tag, standing, accept>>
  BY DEF Compare, aux
<1>3. Lost(standing, built.manifest) # {} => accept
  <2>1. CASE listed = <<>>
    BY <2>1 DEF VolumeInv, Lost
  <2>2. CASE listed # <<>>
    <3>1. prev = Newest /\ releases[Newest].manifest = standing
      BY <1>1, <2>2 DEF VolumeInv, Carrying
    <3>2. prev # Nobody
      BY <2>2, <3>1, NewestIsATag, ReleaseAssumption DEF Days, Nobody
    <3> QED BY <3>1, <3>2 DEF Compare
  <2> QED BY <2>1, <2>2
<1>4. listed' = <<>> => listed = <<>>
  BY DEF Compare, TypeOK
<1>5. ASSUME listed' # <<>>, tag' # Newest' PROVE (releases[Newest].manifest = standing)'
  <2>1. listed' = listed
    <3>1. CASE listed' = Append(listed, tag)
      BY <1>2, <1>5, <3>1 DEF Newest, Last, TypeOK
    <3> QED BY <3>1 DEF Compare
  <2>2. releases[Newest].manifest = standing
    BY <1>1, <1>5, <2>1 DEF VolumeInv
  <2> QED
    BY <1>2, <2>1, <2>2 DEF Newest
<1> QED
  BY <1>1, <1>2, <1>3, <1>4, <1>5 DEF VolumeInv, Lost

LEMMA UploadKeepsVolume ==
  ASSUME TypeOK, VolumeInv, NEW asset \in Assets, Delete(asset) \/ Upload(asset)
  PROVE  VolumeInv'
<1>1. pc = "publishing" /\ pc' = "publishing" /\ tag \in Tags /\ asset \in todo
  BY DEF Delete, Upload, TypeOK
<1>2. UNCHANGED <<listed, built, tag, standing, accept>>
  BY DEF Delete, Upload, aux
<1>3. \A t \in Tags \ {tag} : releases'[t] = releases[t]
  BY <1>1 DEF Delete, Upload, TypeOK
<1>4. \A a \in Assets \ {asset} : releases'[tag][a] = releases[tag][a]
  BY <1>1 DEF Delete, Upload, TypeOK, Assets
<1>5. \A a \in Assets \ todo' : releases'[tag][a] = built[a]
  <2>1. CASE Delete(asset)
    BY <1>1, <1>4, <2>1 DEF Delete, VolumeInv
  <2>2. CASE Upload(asset)
    <3>1. releases'[tag][asset] = built[asset]
      BY <1>1, <2>2 DEF Upload, TypeOK, Assets
    <3> QED
      BY <1>1, <1>4, <2>2, <3>1 DEF Upload, VolumeInv
  <2> QED BY <2>1, <2>2
<1>6. ASSUME listed' # <<>>, tag' # Newest' PROVE (releases[Newest].manifest = standing)'
  <2>1. listed # <<>> /\ tag # Newest /\ Newest' = Newest
    BY <1>2, <1>6 DEF Newest
  <2>2. Newest \in Tags \ {tag} /\ releases[Newest].manifest = standing
    BY <2>1, NewestIsATag DEF Tags, VolumeInv
  <2> QED
    BY <1>2, <1>3, <2>1, <2>2
<1> QED
  BY <1>1, <1>2, <1>5, <1>6 DEF VolumeInv, Lost

LEMMA FinishKeepsVolume == TypeOK /\ VolumeInv /\ Finish => VolumeInv'
<1> SUFFICES ASSUME TypeOK, VolumeInv, Finish PROVE VolumeInv'
  OBVIOUS
<1>1. pc = "publishing" /\ pc' = "idle" /\ UNCHANGED <<listed, releases>>
  BY DEF Finish, EndJob, github
<1>2. CASE listed # <<>> /\ tag = Newest
  <2>1. releases[Newest]["manifest"] = built["manifest"]
    BY <1>2 DEF Finish, VolumeInv, Assets
  <2>2. standing' = built.manifest
    BY <1>2 DEF Finish, Stands
  <2> QED
    BY <1>1, <1>2, <2>1, <2>2 DEF VolumeInv, Carrying, Newest
<1>3. CASE ~(listed # <<>> /\ tag = Newest)
  <2>1. UNCHANGED standing
    BY <1>3 DEF Finish, Stands, aux
  <2> QED
    BY <1>1, <1>3, <2>1 DEF VolumeInv, Carrying, Newest
<1> QED
  BY <1>2, <1>3

LEMMA VolumeNext ==
  ASSUME ~interrupted', TypeOK, VolumeInv, [Next]_vars
  PROVE  VolumeInv'
<1>1. CASE NewDay
  BY <1>1 DEF NewDay, github, aux, VolumeInv, Newest, Lost
<1>2. ASSUME NEW mayDrop \in BOOLEAN, NEW typed \in TypedTags \cup {Nobody},
             StartJob(mayDrop, typed)
      PROVE  VolumeInv'
  BY <1>2, VolumeAwayFromTheReleases DEF StartJob, github, aux, Carrying
<1>3. CASE Carry
  BY <1>3, VolumeAwayFromTheReleases DEF Carry, github, aux
<1>4. ASSUME NEW stretch \in Backfills, Refetch(stretch) PROVE VolumeInv'
  BY <1>4, VolumeAwayFromTheReleases DEF Refetch, github, aux, VolumeInv, Carrying
<1>5. ASSUME NEW tables \in Builds, Build(tables) PROVE VolumeInv'
  BY <1>5, VolumeAwayFromTheReleases DEF Build, github, aux, VolumeInv, Carrying
<1>6. CASE Package
  BY <1>6, VolumeAwayFromTheReleases DEF Package, github, aux, VolumeInv, Carrying
<1>7. CASE Verify
  BY <1>7, VolumeAwayFromTheReleases DEF Verify, github, aux, VolumeInv, Carrying
<1>8. CASE Compare
  BY <1>8, CompareKeepsVolume
<1>9. CASE Fail
  BY <1>9, VolumeAwayFromTheReleases DEF Fail, EndJob, github, aux, Carrying
<1>10. ASSUME NEW asset \in Assets, Delete(asset) \/ Upload(asset) PROVE VolumeInv'
  BY <1>10, UploadKeepsVolume
<1>11. CASE Finish
  BY <1>11, FinishKeepsVolume
<1>12. CASE Interrupt
  BY <1>12 DEF Interrupt
<1>13. CASE UNCHANGED vars
  BY <1>13 DEF vars, VolumeInv, Newest, Lost
<1> QED
  BY <1>1, <1>2, <1>3, <1>4, <1>5, <1>6, <1>7, <1>8, <1>9, <1>10, <1>11, <1>12,
     <1>13 DEF Next

\* Only Finish moves what stands, to the tables Compare let through.
LEMMA OnlyFinishDrops ==
  ASSUME TypeOK, VolumeInv, Next, ~accept
  PROVE  standing' = standing \/ Lost(standing, standing') = {}
<1>1. CASE Finish
  <2>1. pc = "publishing"
    BY <1>1 DEF Finish
  <2>2. standing' = standing \/ standing' = built.manifest
    BY <1>1 DEF Finish, Stands, aux
  <2> QED
    BY <2>1, <2>2 DEF VolumeInv
<1>2. CASE ~Finish
  <2>1. UNCHANGED standing
    BY <1>2 DEF Next, NewDay, StartJob, Carry, Refetch, Build, Package, Verify,
                Compare, Fail, Delete, Upload, Interrupt, aux
  <2> QED
    BY <2>1
<1> QED
  BY <1>1, <1>2

\* Until an upload stops half way, no table that two finished releases in a row
\* publish loses more than MaxDrop of its rows, or a year at either end, unless it
\* is exempt or the job that finished the later one was told to accept the drop
\* (compare_manifests).
THEOREM NoDropUnaccepted == Spec => DropsAreAccepted
<1> DEFINE VInv == TypeOK /\ (~interrupted => VolumeInv)
<1>1. Init => VInv
  BY TypeInit, VolumeInit
<1>2. VInv /\ [Next]_vars => VInv'
  BY TypeNext, VolumeNext, OnceInterrupted
<1>3. VInv /\ [Next]_vars => [~interrupted' /\ ~accept => Kept(standing, standing')]_vars
  <2> SUFFICES ASSUME VInv, Next, ~interrupted', ~accept PROVE Kept(standing, standing')
    OBVIOUS
  <2>1. TypeOK /\ VolumeInv
    BY OnceInterrupted
  <2>2. standing \in Manifests /\ standing' \in Manifests
    BY <2>1, TypeNext DEF TypeOK
  <2> QED
    BY <2>1, <2>2, OnlyFinishDrops, NothingLostIsKept, SameIsKept
<1> QED
  <2> HIDE DEF VInv
  <2> QED
    BY <1>1, <1>2, <1>3, PTL DEF Spec, DropsAreAccepted, Kept

-----------------------------------------------------------------------------
(* The run history, with uploads that stop half way. *)

\* A release that has a warehouse has the history in it; one that has none stops
\* the next job.
HistoryInv ==
  /\ listed = <<>> => published.warehouse = {}
  /\ (listed # <<>> /\ Has(Newest, "warehouse"))
       => published.warehouse \subseteq releases[Newest].warehouse
  /\ pc \in Carrying => published.warehouse \subseteq built.warehouse
  /\ pc = "publishing" => \A asset \in Assets \ todo : releases[tag][asset] = built[asset]
  /\ pc = "publishing" => tag = Elsewhere \/ Contains(listed, tag)
  /\ \A r \in Days : ~Contains(listed, r) => ~Has(r, "warehouse")

LEMMA HistoryInit == Init => HistoryInv
<1> SUFFICES ASSUME Init PROVE HistoryInv
  OBVIOUS
<1>1. PICK first \in Holdings :
       /\ releases = [r \in Tags |-> IF r = FirstDay THEN first ELSE NoAssets]
       /\ listed = IF first = NoAssets THEN <<>> ELSE <<FirstDay>>
       /\ published = [warehouse |-> first.warehouse, lakehouse |-> first.lakehouse]
  BY FirstRelease
<1>2. pc = "idle"
  BY DEF Init
<1>3. NoAssets.warehouse = {} /\ NoAssets["warehouse"] = {}
  BY DEF NoAssets
<1>4. \A r \in Days : ~Contains(listed, r) => ~Has(r, "warehouse")
  <2> SUFFICES ASSUME NEW r \in Days, ~Contains(listed, r) PROVE ~Has(r, "warehouse")
    OBVIOUS
  <2>1. releases[r] = NoAssets
    <3>1. CASE first = NoAssets
      BY <1>1, <3>1 DEF Tags
    <3>2. CASE first # NoAssets
      <4>1. listed = <<FirstDay>>
        BY <1>1, <3>2
      <4>2. r # FirstDay
        BY <4>1 DEF Contains
      <4> QED BY <1>1, <4>2 DEF Tags
    <3> QED BY <3>1, <3>2
  <2> QED BY <1>3, <2>1 DEF Has
<1>5. CASE first = NoAssets
  BY <1>1, <1>2, <1>3, <1>4, <1>5 DEF HistoryInv, Carrying
<1>6. CASE first # NoAssets
  <2>1. listed = <<FirstDay>> /\ Newest = FirstDay
    BY <1>1, <1>6 DEF Newest, Last
  <2>2. releases[FirstDay] = first
    BY <1>1, ReleaseAssumption DEF Tags, Days
  <2> QED
    BY <1>1, <1>2, <1>4, <2>1, <2>2 DEF HistoryInv, Carrying
<1> QED
  BY <1>5, <1>6

LEMMA HistoryAwayFromTheReleases ==
  ASSUME HistoryInv, UNCHANGED <<listed, releases, published>>,
         pc' # "publishing",
         pc' \in Carrying => published.warehouse \subseteq built'.warehouse
  PROVE  HistoryInv'
BY DEF HistoryInv, Newest, Has

LEMMA CarryKeepsHistory == TypeOK /\ HistoryInv /\ Carry => HistoryInv'
<1> SUFFICES ASSUME TypeOK, HistoryInv, Carry PROVE HistoryInv'
  OBVIOUS
<1>1. CASE listed = <<>>
  <2>1. published.warehouse = {}
    BY <1>1 DEF HistoryInv
  <2> QED
    BY <2>1, HistoryAwayFromTheReleases DEF Carry, github, aux
<1>2. CASE listed # <<>>
  <2>1. published.warehouse \subseteq releases[Newest].warehouse
    BY <1>2 DEF HistoryInv, Carry
  <2>2. built'.warehouse = releases[Newest].warehouse
    BY <1>2 DEF Carry, TypeOK
  <2> QED
    BY <2>1, <2>2, HistoryAwayFromTheReleases DEF Carry, github, aux
<1> QED
  BY <1>1, <1>2

LEMMA CompareKeepsHistory == TypeOK /\ HistoryInv /\ Compare => HistoryInv'
<1> SUFFICES ASSUME TypeOK, HistoryInv, Compare PROVE HistoryInv'
  OBVIOUS
<1>1. pc = "verified" /\ pc' = "publishing" /\ todo' = Assets
  BY DEF Compare
<1>2. UNCHANGED <<releases, built, tag, published>>
  BY DEF Compare, aux
<1>3. tag \in Tags /\ listed \in Seq(Days)
  BY <1>1 DEF TypeOK
<1>4. CASE tag = Elsewhere \/ Contains(listed, tag)
  <2>1. listed' = listed
    BY <1>4 DEF Compare
  <2> QED
    BY <1>1, <1>2, <1>4, <2>1 DEF HistoryInv, Carrying, Newest, Has
<1>5. CASE ~(tag = Elsewhere \/ Contains(listed, tag))
  <2>1. tag \in Days /\ listed' = Append(listed, tag)
    BY <1>3, <1>5 DEF Compare, Tags
  <2>2. listed' # <<>> /\ Newest' = tag
    BY <1>3, <2>1 DEF Newest, Last
  <2>3. ~Has(tag, "warehouse")
    BY <1>5, <2>1 DEF HistoryInv
  <2>4. ~Has(Newest, "warehouse")'
    BY <1>2, <2>2, <2>3 DEF Has
  <2>5. Contains(listed', tag)
    BY <1>3, <2>1 DEF Contains
  <2>6. \A r : Contains(listed, r) => Contains(listed', r)
    BY <1>3, <2>1 DEF Contains
  <2>7. \A r \in Days : ~Contains(listed', r) => ~Has(r, "warehouse")'
    BY <1>2, <2>6 DEF HistoryInv, Has
  <2> QED
    BY <1>1, <1>2, <2>2, <2>4, <2>5, <2>7 DEF HistoryInv, Carrying
<1> QED
  BY <1>4, <1>5

LEMMA UploadKeepsHistory ==
  ASSUME TypeOK, HistoryInv, NEW asset \in Assets, Delete(asset) \/ Upload(asset)
  PROVE  HistoryInv'
<1>1. pc = "publishing" /\ pc' = "publishing" /\ tag \in Tags /\ asset \in todo
  BY DEF Delete, Upload, TypeOK
<1>2. UNCHANGED <<listed, built, tag, published>>
  BY DEF Delete, Upload, aux
<1>3. \A t \in Tags \ {tag} : releases'[t] = releases[t]
  BY <1>1 DEF Delete, Upload, TypeOK
<1>4. \A a \in Assets \ {asset} : releases'[tag][a] = releases[tag][a]
  BY <1>1 DEF Delete, Upload, TypeOK, Assets
<1>5. releases'[tag][asset] = NoAssets[asset] \/ releases'[tag][asset] = built[asset]
  BY <1>1 DEF Delete, Upload, TypeOK, Assets
<1>6. \A a \in Assets \ todo' : releases'[tag][a] = built[a]
  <2>1. CASE Delete(asset)
    BY <1>1, <1>4, <2>1 DEF Delete, HistoryInv
  <2>2. CASE Upload(asset)
    <3>1. releases'[tag][asset] = built[asset]
      BY <1>1, <2>2 DEF Upload, TypeOK, Assets
    <3> QED
      BY <1>1, <1>4, <2>2, <3>1 DEF Upload, HistoryInv
  <2> QED BY <2>1, <2>2
<1>7. \A r \in Days : ~Contains(listed, r) => ~Has(r, "warehouse")'
  <2> SUFFICES ASSUME NEW r \in Days, ~Contains(listed, r) PROVE ~Has(r, "warehouse")'
    OBVIOUS
  <2>1. r # tag
    BY <1>1, ReleaseAssumption DEF HistoryInv, Elsewhere, Days
  <2> QED
    BY <1>3, <2>1 DEF HistoryInv, Has, Tags
<1>8. ASSUME listed # <<>>, Has(Newest, "warehouse")'
      PROVE  (published.warehouse \subseteq releases[Newest].warehouse)'
  <2>1. Newest' = Newest /\ Newest \in Tags
    BY <1>2, <1>8, NewestIsATag DEF Newest, Tags
  <2>2. CASE Newest # tag
    BY <1>2, <1>3, <1>8, <2>1, <2>2 DEF HistoryInv, Has
  <2>3. CASE Newest = tag /\ asset # "warehouse"
    <3>1. releases'[tag]["warehouse"] = releases[tag]["warehouse"]
      BY <1>4, <2>3 DEF Assets
    <3> QED
      BY <1>2, <1>8, <2>1, <2>3, <3>1 DEF HistoryInv, Has
  <2>4. CASE Newest = tag /\ asset = "warehouse"
    <3>1. releases'[tag]["warehouse"] = built["warehouse"]
      BY <1>5, <1>8, <2>1, <2>4 DEF Has
    <3> QED
      BY <1>1, <1>2, <2>1, <2>4, <3>1 DEF HistoryInv, Carrying
  <2> QED BY <2>2, <2>3, <2>4
<1> QED
  BY <1>1, <1>2, <1>6, <1>7, <1>8 DEF HistoryInv

LEMMA FinishKeepsHistory == TypeOK /\ HistoryInv /\ Finish => HistoryInv'
<1> SUFFICES ASSUME TypeOK, HistoryInv, Finish PROVE HistoryInv'
  OBVIOUS
<1>1. pc = "publishing" /\ pc' = "idle" /\ UNCHANGED <<listed, releases>>
  BY DEF Finish, EndJob, github
<1>2. CASE listed # <<>> /\ tag = Newest
  <2>1. releases[Newest]["warehouse"] = built["warehouse"]
    BY <1>2 DEF Finish, HistoryInv, Assets
  <2>2. published'.warehouse = published.warehouse \cup built.warehouse
    BY <1>2 DEF Finish, Stands
  <2>3. published'.warehouse \subseteq releases[Newest].warehouse
    BY <1>1, <2>1, <2>2 DEF HistoryInv, Carrying
  <2> QED
    BY <1>1, <1>2, <2>3 DEF HistoryInv, Carrying, Newest, Has
<1>3. CASE ~(listed # <<>> /\ tag = Newest)
  <2>1. UNCHANGED published
    BY <1>3 DEF Finish, Stands, aux
  <2> QED
    BY <1>1, <2>1, HistoryAwayFromTheReleases DEF Carrying
<1> QED
  BY <1>2, <1>3

LEMMA HistoryNext ==
  ASSUME TypeOK, HistoryInv, [Next]_vars
  PROVE  HistoryInv'
<1>1. CASE NewDay
  BY <1>1 DEF NewDay, github, aux, HistoryInv, Newest, Has
<1>2. ASSUME NEW mayDrop \in BOOLEAN, NEW typed \in TypedTags \cup {Nobody},
             StartJob(mayDrop, typed)
      PROVE  HistoryInv'
  BY <1>2, HistoryAwayFromTheReleases DEF StartJob, github, aux, Carrying
<1>3. CASE Carry
  BY <1>3, CarryKeepsHistory
<1>4. ASSUME NEW stretch \in Backfills, Refetch(stretch) PROVE HistoryInv'
  <2>1. published.warehouse \subseteq built'.warehouse
    BY <1>4 DEF Refetch, HistoryInv, Carrying, TypeOK
  <2> QED
    BY <1>4, <2>1, HistoryAwayFromTheReleases DEF Refetch, github, aux
<1>5. ASSUME NEW tables \in Builds, Build(tables) PROVE HistoryInv'
  <2>1. published.warehouse \subseteq built'.warehouse
    BY <1>5 DEF Build, HistoryInv, Carrying
  <2> QED
    BY <1>5, <2>1, HistoryAwayFromTheReleases DEF Build, github, aux
<1>6. CASE Package \/ Verify
  <2>1. published.warehouse \subseteq built'.warehouse
    BY <1>6 DEF Package, Verify, HistoryInv, Carrying
  <2> QED
    BY <1>6, <2>1, HistoryAwayFromTheReleases DEF Package, Verify, github, aux
<1>7. CASE Compare
  BY <1>7, CompareKeepsHistory
<1>8. CASE Fail \/ Interrupt
  BY <1>8, HistoryAwayFromTheReleases DEF Fail, Interrupt, EndJob, github, aux, Carrying
<1>9. ASSUME NEW asset \in Assets, Delete(asset) \/ Upload(asset) PROVE HistoryInv'
  BY <1>9, UploadKeepsHistory
<1>10. CASE Finish
  BY <1>10, FinishKeepsHistory
<1>11. CASE UNCHANGED vars
  BY <1>11 DEF vars, HistoryInv, Newest, Has
<1> QED
  BY <1>1, <1>2, <1>3, <1>4, <1>5, <1>6, <1>7, <1>8, <1>9, <1>10, <1>11 DEF Next

\* Only Finish moves what is published, and by then the tag holds the built
\* warehouse.
LEMMA OnlyFinishPublishes ==
  ASSUME TypeOK, HistoryInv, Next, published' # published
  PROVE  published.warehouse \subseteq releases[tag].warehouse
<1>1. CASE Finish
  <2>1. pc = "publishing" /\ todo = {}
    BY <1>1 DEF Finish
  <2>2. releases[tag]["warehouse"] = built["warehouse"]
    BY <2>1 DEF HistoryInv, Assets
  <2> QED
    BY <2>1, <2>2 DEF HistoryInv, Carrying
<1>2. CASE ~Finish
  <2>1. UNCHANGED published
    BY <1>2 DEF Next, NewDay, StartJob, Carry, Refetch, Build, Package, Verify,
                Compare, Fail, Delete, Upload, Interrupt, aux
  <2> QED BY <2>1
<1> QED
  BY <1>1, <1>2

\* Whatever tags are typed and wherever uploads stop, a release a job ends green
\* with holds every run an earlier one did.
THEOREM HistorySurvives == Spec => RunsAreInherited
<1>1. Init => TypeOK /\ HistoryInv
  BY TypeInit, HistoryInit
<1>2. TypeOK /\ HistoryInv /\ [Next]_vars => (TypeOK /\ HistoryInv)'
  BY TypeNext, HistoryNext
<1>3. TypeOK /\ HistoryInv /\ [Next]_vars
        => [published' # published
              => published.warehouse \subseteq releases[tag].warehouse]_vars
  BY OnlyFinishPublishes
<1> QED
  BY <1>1, <1>2, <1>3, PTL DEF Spec, RunsAreInherited

-----------------------------------------------------------------------------
(* THE RESTORE. *)

Lakes == [parts : SUBSET {"dir", "data", "catalog"}, path : {"here", "elsewhere"},
          days : SUBSET Origins, book : BOOLEAN]

-----------------------------------------------------------------------------
(* Types. *)

LEMMA TablesAreNamed ==
  /\ Len(Carried) \in Nat
  /\ \A i \in 1 .. Len(Carried) : Carried[i] \in TableNames
  /\ \A t \in TableNames : \E i \in 1 .. Len(Carried) : t = Carried[i]
<1>1. Len(Carried) \in Nat /\ DOMAIN Carried = 1 .. Len(Carried)
  BY CarryAssumption, LenProperties
<1> QED
  BY <1>1 DEF TableNames

LEMMA PreflightEnds ==
  ASSUME NEW onward, Preflight(onward)
  PROVE  step' \in {"refused", "failed", onward}
BY DEF Preflight

LEMMA CopiedIsTyped ==
  ASSUME NEW parts \in SUBSET {"dir", "data", "catalog"}
  PROVE  Copied(parts) \in Lakes
BY DEF Copied, Lakes, Origins

LEMMA RestoreTypeInit == RestoreInit => RestoreTypeOK
<1> SUFFICES ASSUME RestoreInit PROVE RestoreTypeOK
  OBVIOUS
<1>1. next \in 1 .. Len(Carried) + 1
  BY TablesAreNamed DEF RestoreInit
<1>2. wh \in [TableNames -> SUBSET Origins] /\ before = wh
  BY DEF RestoreInit
<1>3. lake \in Lakes
  BY DEF RestoreInit, NoLake, Lakes
<1> QED
  BY <1>1, <1>2, <1>3 DEF RestoreInit, RestoreTypeOK, Ended, Lakes

LEMMA RestoreTypeStep == RestoreTypeOK /\ [RestoreNext]_restoreVars => RestoreTypeOK'
<1> SUFFICES ASSUME RestoreTypeOK, [RestoreNext]_restoreVars PROVE RestoreTypeOK'
  OBVIOUS
<1> USE TablesAreNamed
<1>1. ASSUME NEW release \in Releases, NEW forced \in BOOLEAN, Start(release, forced)
      PROVE  RestoreTypeOK'
  <2>1. step' \in {"refused", "failed", "tables"}
    BY <1>1, PreflightEnds DEF Start
  <2> QED
    BY <1>1, <2>1 DEF Start, RestoreTypeOK, Ended
<1>2. CASE CarryTable
  <2>1. next' \in 1 .. Len(Carried) + 1
    BY <1>2 DEF CarryTable, RestoreTypeOK
  <2>2. wh' \in [TableNames -> SUBSET Origins]
    BY <1>2 DEF CarryTable, RestoreTypeOK, Origins
  <2>3. step' \in {"refused", "tables"}
    BY <1>2 DEF CarryTable
  <2> QED
    BY <1>2, <2>1, <2>2, <2>3 DEF CarryTable, RestoreTypeOK, Ended
<1>3. CASE CloseTables
  BY <1>3 DEF CloseTables, RestoreTypeOK, Ended
<1>4. CASE Unpack
  <2>1. step' \in {"refused", "failed", "replace"}
    BY <1>4, PreflightEnds DEF Unpack
  <2> QED
    BY <1>4, <2>1 DEF Unpack, RestoreTypeOK, Ended
<1>5. CASE RemoveLake
  BY <1>5 DEF RemoveLake, RestoreTypeOK, NoLake
<1>6. CASE Copy
  <2>1. lake' \in Lakes
    BY <1>6, CopiedIsTyped DEF Copy, RestoreTypeOK, Lakes
  <2> QED
    BY <1>6, <2>1 DEF Copy, RestoreTypeOK, Lakes, Ended
<1>7. CASE Relink
  BY <1>7 DEF Relink, RestoreTypeOK, Ended
<1>8. CASE Crash
  <2>1. lake \in Lakes
    BY DEF RestoreTypeOK, Lakes
  <2>2. ASSUME NEW parts \in SUBSET lake.parts,
               lake' = [lake EXCEPT !.parts = parts,
                                    !.days = IF "catalog" \in parts THEN @ ELSE {},
                                    !.book = @ /\ "catalog" \in parts]
        PROVE  lake' \in Lakes
    BY <2>1, <2>2 DEF Lakes
  <2>3. lake' \in Lakes
    BY <1>8, <2>1, <2>2, CopiedIsTyped DEF Crash
  <2> QED
    BY <1>8, <2>3 DEF Crash, RestoreTypeOK, Lakes, Ended
<1>9. CASE LoadLands
  BY <1>9 DEF LoadLands, RestoreTypeOK, Origins
<1>10. CASE LoadFails
  BY <1>10 DEF LoadFails, RestoreTypeOK
<1>11. ASSUME NEW table \in TableNames, BuildAdds(table) PROVE RestoreTypeOK'
  BY <1>11 DEF BuildAdds, RestoreTypeOK, Origins
<1>12. ASSUME NEW forced \in BOOLEAN, CleanWarehouse(forced) PROVE RestoreTypeOK'
  BY <1>12 DEF CleanWarehouse, RestoreTypeOK
<1>13. CASE DeleteByHand
  <2>1. NoLake \in Lakes /\ lake \in Lakes
    BY DEF RestoreTypeOK, NoLake, Lakes
  <2> QED
    BY <1>13, <2>1 DEF DeleteByHand, RestoreTypeOK, Lakes
<1>14. CASE UNCHANGED restoreVars
  BY <1>14 DEF restoreVars, RestoreTypeOK
<1> QED
  BY <1>1, <1>2, <1>3, <1>4, <1>5, <1>6, <1>7, <1>8, <1>9, <1>10, <1>11, <1>12, <1>13, <1>14
     DEF RestoreNext

\* Every variable keeps its type: a restore can be pointed at any release, be
\* stopped anywhere and be run again.
THEOREM RestoreTypeCorrect == RestoreSpec => []RestoreTypeOK
BY RestoreTypeInit, RestoreTypeStep, PTL DEF RestoreSpec

-----------------------------------------------------------------------------
(* What a restore brings. *)

Brought(t) == IF previous.tables[t] = "rows" THEN {"carried"} ELSE before[t]
Passed == {Carried[i] : i \in 1 .. next - 1}

\* The tables passed have the release's version and the others their own; a
\* landing zone that waits to be relinked is the release's.
BringsInv ==
  /\ step = "tables" => \A t \in TableNames : wh[t] = IF t \in Passed THEN Brought(t) ELSE before[t]
  /\ step \in {"unpack", "replace", "copy", "relink"} => \A t \in TableNames : wh[t] = Brought(t)
  /\ step = "relink" => /\ "catalog" \in lake.parts /\ lake.path = "elsewhere"
                      /\ lake.days = {"carried"} /\ ~lake.book

\* The tables have all been passed when the loop ends.
LEMMA AllPassed ==
  ASSUME RestoreTypeOK, BringsInv, CloseTables
  PROVE  \A t \in TableNames : wh[t] = Brought(t)
<1>1. next = Len(Carried) + 1
  BY TablesAreNamed DEF RestoreTypeOK, CloseTables
<1>2. Passed = TableNames
  BY <1>1, TablesAreNamed DEF Passed
<1> QED
  BY <1>2 DEF BringsInv, CloseTables

\* One more table is passed.
LEMMA OnePassed ==
  ASSUME RestoreTypeOK, BringsInv, CarryTable, step' = "tables"
  PROVE  \A t \in TableNames : wh'[t] = IF t \in Passed' THEN Brought(t)' ELSE before'[t]
<1>1. next' = next + 1 /\ previous' = previous /\ before' = before /\ step = "tables"
      /\ next \in 1 .. Len(Carried)
  BY TablesAreNamed DEF CarryTable, RestoreTypeOK
<1>2. Passed' = Passed \cup {Carried[next]}
  <2>1. 1 .. next' - 1 = (1 .. next - 1) \cup {next}
    BY <1>1
  <2> QED
    BY <2>1 DEF Passed
<1>3. TAKE t \in TableNames
<1>4. wh[t] = IF t \in Passed THEN Brought(t) ELSE before[t]
  BY <1>1 DEF BringsInv
<1>5. Brought(t)' = Brought(t)
  BY <1>1 DEF Brought
<1>6. CASE t = Carried[next] /\ Kind = "rows"
  <2>1. wh'[t] = {"carried"}
    BY <1>1, <1>6 DEF CarryTable, RestoreTypeOK
  <2> QED
    BY <2>1, <1>1, <1>2, <1>5, <1>6 DEF Brought, Kind
<1>7. CASE t = Carried[next] /\ Kind # "rows"
  <2>1. wh'[t] = wh[t] /\ Brought(t) = before[t]
    BY <1>1, <1>7 DEF CarryTable, Brought, Kind
  <2> QED
    BY <2>1, <1>1, <1>2, <1>4, <1>5, <1>7
<1>8. CASE t # Carried[next]
  <2>1. wh'[t] = wh[t]
    BY <1>1, <1>8 DEF CarryTable, RestoreTypeOK
  <2> QED
    BY <2>1, <1>1, <1>2, <1>4, <1>5, <1>8
<1> QED
  BY <1>6, <1>7, <1>8

LEMMA BringsInit == RestoreInit => BringsInv
BY DEF RestoreInit, BringsInv

LEMMA BringsStep == RestoreTypeOK /\ BringsInv /\ [RestoreNext]_restoreVars => BringsInv'
<1> SUFFICES ASSUME RestoreTypeOK, BringsInv, [RestoreNext]_restoreVars PROVE BringsInv'
  OBVIOUS
<1>1. ASSUME NEW release \in Releases, NEW forced \in BOOLEAN, Start(release, forced)
      PROVE  BringsInv'
  <2>1. step' \in {"refused", "failed", "tables"}
    BY <1>1, PreflightEnds DEF Start
  <2>2. Passed' = {}
    BY <1>1 DEF Start, Passed
  <2> QED
    BY <1>1, <2>1, <2>2 DEF Start, BringsInv
<1>2. CASE CarryTable
  <2>1. step' \in {"refused", "tables"}
    BY <1>2 DEF CarryTable
  <2> QED
    BY <1>2, <2>1, OnePassed DEF BringsInv
<1>3. CASE CloseTables
  <2>1. step' \in {"done", "unpack"} /\ wh' = wh /\ previous' = previous /\ before' = before
    BY <1>3 DEF CloseTables
  <2> QED
    BY <1>3, <2>1, AllPassed DEF BringsInv, Brought
<1>4. CASE Unpack
  <2>1. step' \in {"refused", "failed", "replace"}
    BY <1>4, PreflightEnds DEF Unpack
  <2> QED
    BY <1>4, <2>1 DEF Unpack, BringsInv, Brought
<1>5. CASE RemoveLake
  BY <1>5 DEF RemoveLake, BringsInv, Brought
<1>6. CASE Copy
  BY <1>6 DEF Copy, Copied, BringsInv, Brought
<1>7. CASE Relink
  BY <1>7 DEF Relink, BringsInv
<1>8. CASE Crash
  BY <1>8 DEF Crash, BringsInv
<1>9. CASE LoadLands
  <2>1. step # "relink" /\ step' = step /\ wh' = wh /\ previous' = previous /\ before' = before /\ next' = next
    BY <1>9 DEF LoadLands, CanLoad, Readable, IsCatalog, BringsInv
  <2> QED
    BY <2>1 DEF BringsInv, Brought, Passed
<1>10. CASE LoadFails
  BY <1>10 DEF LoadFails, BringsInv, Brought, Passed, RestoreTypeOK
<1>11. ASSUME NEW table \in TableNames, BuildAdds(table) PROVE BringsInv'
  BY <1>11 DEF BuildAdds, BringsInv, Ended
<1>12. ASSUME NEW forced \in BOOLEAN, CleanWarehouse(forced) PROVE BringsInv'
  BY <1>12 DEF CleanWarehouse, BringsInv, Ended
<1>13. CASE DeleteByHand
  BY <1>13 DEF DeleteByHand, BringsInv, Ended
<1>14. CASE UNCHANGED restoreVars
  BY <1>14 DEF restoreVars, BringsInv, Brought, Passed
<1> QED
  BY <1>1, <1>2, <1>3, <1>4, <1>5, <1>6, <1>7, <1>8, <1>9, <1>10, <1>11, <1>12, <1>13, <1>14
     DEF RestoreNext

\* A restore that ends well brought every table the release has rows of and,
\* with an archive, the release's landing zone, even with a load beside it.
THEOREM DoneBringsTheRelease == RestoreSpec => DoneMeansCarried
<1>1. RestoreTypeOK /\ BringsInv /\ [RestoreNext]_restoreVars =>
        [step' = "done" /\ step # "done" =>
           /\ \A t \in TableNames :
                wh'[t] = IF previous.tables[t] = "rows" THEN {"carried"} ELSE before[t]
           /\ previous.archive # "none" => Readable' /\ lake'.days = {"carried"} /\ ~lake'.book]_restoreVars
  <2> SUFFICES ASSUME RestoreTypeOK, BringsInv, [RestoreNext]_restoreVars, step' = "done", step # "done"
               PROVE  /\ \A t \in TableNames :
                           wh'[t] = IF previous.tables[t] = "rows" THEN {"carried"} ELSE before[t]
                      /\ previous.archive # "none" =>
                           Readable' /\ lake'.days = {"carried"} /\ ~lake'.book
    OBVIOUS
  <2>1. CASE CloseTables
    <3>1. wh' = wh /\ previous.archive = "none"
      BY <2>1 DEF CloseTables
    <3> QED
      BY <2>1, <3>1, AllPassed DEF Brought
  <2>2. CASE Relink
    <3>1. wh' = wh /\ lake' = [lake EXCEPT !.path = "here"]
      BY <2>2 DEF Relink
    <3>2. lake'.parts = lake.parts /\ lake'.path = "here" /\ lake'.days = lake.days
          /\ lake'.book = lake.book
      BY <3>1 DEF RestoreTypeOK
    <3> QED
      BY <2>2, <3>1, <3>2 DEF Relink, BringsInv, Brought, Readable, IsCatalog
  <2>3. CloseTables \/ Relink
    <3>1. ASSUME NEW release \in Releases, NEW forced \in BOOLEAN, Start(release, forced)
          PROVE  FALSE
      BY <3>1, PreflightEnds DEF Start
    <3>2. ~Unpack
      BY PreflightEnds DEF Unpack
    <3> QED
      BY <3>1, <3>2 DEF RestoreNext, restoreVars, CarryTable, RemoveLake, Copy, Crash, LoadLands, LoadFails,
                        BuildAdds, CleanWarehouse, DeleteByHand
  <2> QED
    BY <2>1, <2>2, <2>3
<1> QED
  BY <1>1, RestoreTypeInit, RestoreTypeStep, BringsInit, BringsStep, PTL DEF RestoreSpec, DoneMeansCarried

-----------------------------------------------------------------------------
(* What a restore keeps. *)

\* Without --force no command removes a row of a carried table.
THEOREM RevisionsAreKept == RestoreSpec => RevisionsStay
<1>1. RestoreTypeOK /\ [RestoreNext]_restoreVars => [~force' => \A t \in TableNames : wh[t] \subseteq wh'[t]]_restoreVars
  <2> SUFFICES ASSUME RestoreTypeOK, [RestoreNext]_restoreVars, ~force', NEW t \in TableNames
               PROVE  wh[t] \subseteq wh'[t]
    OBVIOUS
  <2>1. CASE CarryTable
    <3>1. CASE wh' = wh
      BY <3>1
    <3>2. CASE ~InTheWay /\ wh' = [wh EXCEPT ![Carried[next]] = {"carried"}]
      <4>1. ~force
        BY <2>1 DEF CarryTable
      <4> QED
        BY <3>2, <4>1 DEF InTheWay, RestoreTypeOK
    <3> QED
      BY <2>1, <3>1, <3>2 DEF CarryTable
  <2>2. ASSUME NEW table \in TableNames, BuildAdds(table) PROVE wh[t] \subseteq wh'[t]
    BY <2>2 DEF BuildAdds, RestoreTypeOK
  <2>3. ASSUME NEW forced \in BOOLEAN, CleanWarehouse(forced) PROVE wh[t] \subseteq wh'[t]
    BY <2>3 DEF CleanWarehouse, Irreplaceable
  <2> QED
    BY <2>1, <2>2, <2>3 DEF RestoreNext, restoreVars, Start, CloseTables, Unpack, RemoveLake, Copy, Relink, Crash,
                            LoadLands, LoadFails, DeleteByHand
<1> QED
  BY <1>1, RestoreTypeInit, RestoreTypeStep, PTL DEF RestoreSpec, RevisionsStay

\* Between the first preflight and the last step dlt has no state, and from the
\* second on there is no row in the way.
KeepsInv ==
  /\ lake.days # {} => IsCatalog
  /\ (step \in {"unpack", "replace", "copy", "relink"} \/ (step = "tables" /\ previous.archive # "none"))
       => beside \/ dlt = "cold"
  /\ step \in {"replace", "copy"} => beside \/ lake.days = {}
  /\ NextLoadFindsItsTables

LEMMA KeepsInit == RestoreInit => KeepsInv
BY DEF RestoreInit, KeepsInv, NoLake, NextLoadFindsItsTables

LEMMA KeepsStep == RestoreTypeOK /\ KeepsInv /\ [RestoreNext]_restoreVars => KeepsInv'
<1> SUFFICES ASSUME RestoreTypeOK, KeepsInv, [RestoreNext]_restoreVars PROVE KeepsInv'
  OBVIOUS
<1> USE DEF KeepsInv, NextLoadFindsItsTables, IsCatalog, Readable
<1>1. ASSUME NEW release \in Releases, NEW forced \in BOOLEAN, Start(release, forced)
      PROVE  KeepsInv'
  BY <1>1 DEF Start, Preflight
<1>2. CASE CarryTable
  BY <1>2 DEF CarryTable
<1>3. CASE CloseTables
  BY <1>3 DEF CloseTables
<1>4. CASE Unpack
  BY <1>4 DEF Unpack, Preflight
<1>5. CASE RemoveLake
  BY <1>5 DEF RemoveLake, NoLake
<1>6. CASE Copy
  BY <1>6 DEF Copy, Copied
<1>7. CASE Relink
  BY <1>7 DEF Relink, RestoreTypeOK
<1>8. CASE Crash
  <2>1. dlt' = dlt /\ step' = "failed" /\ beside' = beside
    BY <1>8 DEF Crash
  <2>2. CASE UNCHANGED lake
    BY <2>1, <2>2
  <2>3. ASSUME step = "replace", NEW parts \in SUBSET lake.parts,
               lake' = [lake EXCEPT !.parts = parts,
                                    !.days = IF "catalog" \in parts THEN @ ELSE {},
                                    !.book = @ /\ "catalog" \in parts]
        PROVE  KeepsInv'
    <3>1. lake'.parts = parts /\ (lake'.days # {} => "catalog" \in parts)
          /\ (beside \/ lake'.days = {})
      BY <2>3 DEF RestoreTypeOK
    <3> QED
      BY <2>1, <3>1
  <2>4. CASE step = "copy" /\ \E parts \in SUBSET {"dir", "data", "catalog"} : lake' = Copied(parts)
    BY <2>1, <2>4 DEF Copied
  <2> QED
    BY <1>8, <2>2, <2>3, <2>4 DEF Crash, RestoreTypeOK
<1>9. CASE LoadLands
  <2>1. lake'.book /\ "catalog" \in lake'.parts
    BY <1>9 DEF LoadLands
  <2>2. step' = step /\ previous' = previous /\ (beside => beside') /\ (step \notin Ended => beside')
    BY <1>9 DEF LoadLands
  <2> QED
    BY <2>1, <2>2 DEF Ended
<1>10. CASE LoadFails
  <2>1. lake'.days = lake.days /\ lake'.book = lake.book /\ lake'.path = lake.path
        /\ ("catalog" \in lake'.parts <=> "catalog" \in lake.parts)
    BY <1>10 DEF LoadFails, RestoreTypeOK
  <2>2. step' = step /\ previous' = previous /\ (dlt' = "knows" => dlt = "knows")
        /\ (beside => beside') /\ (step \notin Ended => beside')
    BY <1>10 DEF LoadFails, RestoreTypeOK
  <2> QED
    BY <2>1, <2>2 DEF Ended
<1>11. ASSUME NEW table \in TableNames, BuildAdds(table) PROVE KeepsInv'
  BY <1>11 DEF BuildAdds
<1>12. ASSUME NEW forced \in BOOLEAN, CleanWarehouse(forced) PROVE KeepsInv'
  BY <1>12 DEF CleanWarehouse
<1>13. CASE DeleteByHand
  BY <1>13 DEF DeleteByHand, NoLake, Ended
<1>14. CASE UNCHANGED restoreVars
  BY <1>14 DEF restoreVars
<1> QED
  BY <1>1, <1>2, <1>3, <1>4, <1>5, <1>6, <1>7, <1>8, <1>9, <1>10, <1>11, <1>12, <1>13, <1>14
     DEF RestoreNext

\* While no load ran beside a restore, none removes a row of the landing zone,
\* forced or not.
THEOREM LandedDaysAreKept == RestoreSpec => LandedDaysStay
<1>1. RestoreTypeOK /\ KeepsInv /\ [RestoreNext]_restoreVars =>
        [step \notin Ended /\ ~beside => lake.days \subseteq lake'.days]_restoreVars
  <2> SUFFICES ASSUME RestoreTypeOK, KeepsInv, [RestoreNext]_restoreVars, step \notin Ended, ~beside
               PROVE  lake.days \subseteq lake'.days
    OBVIOUS
  <2>1. CASE step \in {"replace", "copy"}
    BY <2>1 DEF KeepsInv
  <2>2. CASE Relink
    BY <2>2 DEF Relink, RestoreTypeOK
  <2>3. CASE LoadLands \/ LoadFails
    BY <2>3 DEF LoadLands, LoadFails, RestoreTypeOK
  <2>4. CASE step \notin {"replace", "copy"} /\ ~Relink /\ ~(LoadLands \/ LoadFails)
    BY <2>4 DEF RestoreNext, restoreVars, Start, CarryTable, CloseTables, Unpack, RemoveLake, Copy, Crash,
                BuildAdds, CleanWarehouse, DeleteByHand
  <2> QED
    BY <2>1, <2>2, <2>3, <2>4
<1> QED
  BY <1>1, RestoreTypeInit, RestoreTypeStep, KeepsInit, KeepsStep, PTL DEF RestoreSpec, LandedDaysStay

\* While no load ran beside a restore, a restored landing zone never meets dlt
\* state of an earlier load.
THEOREM LoadsGoOn == RestoreSpec => []NextLoadFindsItsTables
<1>1. KeepsInv => NextLoadFindsItsTables
  BY DEF KeepsInv
<1> QED
  BY <1>1, RestoreTypeInit, RestoreTypeStep, KeepsInit, KeepsStep, PTL DEF RestoreSpec

-----------------------------------------------------------------------------
(* What a restore leaves. *)

\* A landing zone that can be read has its files, and so does one that waits to be relinked:
\* nothing reads or loads it in between.  What a restore removes holds no days, unless a
\* load put some there after they were counted.
WholeInv ==
  /\ ReadableIsWhole
  /\ step = "relink" => "data" \in lake.parts
  /\ step \in {"replace", "copy"} => beside \/ lake.days = {}

LEMMA WholeInit == RestoreInit => WholeInv
BY DEF RestoreInit, WholeInv, ReadableIsWhole, NoLake

LEMMA WholeStep ==
  RestoreTypeOK /\ BringsInv /\ KeepsInv /\ WholeInv /\ [RestoreNext]_restoreVars => WholeInv'
<1> SUFFICES ASSUME RestoreTypeOK, BringsInv, KeepsInv, WholeInv, [RestoreNext]_restoreVars
             PROVE  WholeInv'
  OBVIOUS
<1> USE DEF WholeInv, ReadableIsWhole, Readable, IsCatalog
<1>1. ASSUME NEW release \in Releases, NEW forced \in BOOLEAN, Start(release, forced)
      PROVE  WholeInv'
  <2>1. step' \in {"refused", "failed", "tables"}
    BY <1>1, PreflightEnds DEF Start
  <2> QED
    BY <1>1, <2>1 DEF Start
<1>2. CASE CarryTable
  BY <1>2 DEF CarryTable
<1>3. CASE CloseTables
  BY <1>3 DEF CloseTables
<1>4. CASE Unpack
  BY <1>4 DEF Unpack, Preflight, KeepsInv
<1>5. CASE RemoveLake
  BY <1>5 DEF RemoveLake, NoLake
<1>6. CASE Copy
  BY <1>6 DEF Copy, Copied
<1>7. CASE Relink
  BY <1>7 DEF Relink, RestoreTypeOK
<1>8. CASE Crash
  <2>1. step' = "failed" /\ beside' = beside
    BY <1>8 DEF Crash
  <2>2. CASE UNCHANGED lake
    BY <2>1, <2>2
  <2>3. ASSUME step = "replace", NEW parts \in SUBSET lake.parts,
               lake' = [lake EXCEPT !.parts = parts,
                                    !.days = IF "catalog" \in parts THEN @ ELSE {},
                                    !.book = @ /\ "catalog" \in parts]
        PROVE  WholeInv'
    <3>1. beside' = beside /\ (beside \/ lake'.days = {})
      BY <1>8, <2>3 DEF RestoreTypeOK, Crash
    <3> QED
      BY <2>1, <3>1
  <2>4. CASE \E parts \in SUBSET {"dir", "data", "catalog"} : lake' = Copied(parts)
    BY <2>1, <2>4 DEF Copied
  <2> QED
    BY <1>8, <2>2, <2>3, <2>4 DEF Crash
<1>9. CASE LoadLands
  <2>1. PICK days \in {{}, {"here"}} :
          /\ days # {} /\ lake.days # {} => "data" \in lake.parts
          /\ lake'.parts = {"dir", "catalog"} \cup (IF lake.days = {} THEN {"data"} ELSE lake.parts)
          /\ lake'.days = lake.days \cup days
    BY <1>9 DEF LoadLands
  <2>2. step' = step /\ beside' = (beside \/ step \notin Ended) /\ CanLoad
    BY <1>9 DEF LoadLands
  <2>3. KeepsInv
    OBVIOUS
  <2>4. lake.days # {} => Readable
    BY <2>2, <2>3 DEF CanLoad, KeepsInv
  <2> QED
    BY <2>1, <2>2, <2>4 DEF Ended
<1>10. CASE LoadFails
  <2>1. lake'.parts = lake.parts \cup {"dir"} /\ lake'.path = lake.path /\ lake'.days = lake.days
    BY <1>10 DEF LoadFails, RestoreTypeOK
  <2>2. step' = step /\ beside' = (beside \/ step \notin Ended)
    BY <1>10 DEF LoadFails
  <2> QED
    BY <2>1, <2>2
<1>11. ASSUME NEW table \in TableNames, BuildAdds(table) PROVE WholeInv'
  BY <1>11 DEF BuildAdds
<1>12. ASSUME NEW forced \in BOOLEAN, CleanWarehouse(forced) PROVE WholeInv'
  BY <1>12 DEF CleanWarehouse
<1>13. CASE DeleteByHand
  BY <1>13 DEF DeleteByHand, NoLake, Ended
<1>14. CASE UNCHANGED restoreVars
  BY <1>14 DEF restoreVars
<1> QED
  BY <1>1, <1>2, <1>3, <1>4, <1>5, <1>6, <1>7, <1>8, <1>9, <1>10, <1>11, <1>12, <1>13, <1>14
     DEF RestoreNext

\* Wherever a restore is stopped, the removal and the copy of the directory included, and
\* while no load ran beside one, a landing zone that opens and holds days has its Parquet
\* beside its catalog.
THEOREM ReadableLakesAreWhole == RestoreSpec => []ReadableIsWhole
<1>1. WholeInv => ReadableIsWhole
  BY DEF WholeInv
<1> QED
  BY <1>1, RestoreTypeInit, RestoreTypeStep, BringsInit, BringsStep, KeepsInit, KeepsStep,
     WholeInit, WholeStep, PTL DEF RestoreSpec
=============================================================================
