----------------------------- MODULE CarryForward -----------------------------
(***************************************************************************)
(* `just restore-history <file>`: what a warehouse cannot rebuild is       *)
(* copied in from a published release (publish/restore_history.py,         *)
(* modern_data_stack/history.py, restore in lake/lakehouse.py), step by    *)
(* step, on a machine that may already hold work of its own.  Two          *)
(* artifacts are written: the carried tables of warehouse.duckdb, then,    *)
(* when the release ships one, the landing zone directory.                 *)
(*                                                                         *)
(* The lake and the catalog are local files.  dlt and dbt are external: a  *)
(* load lands weather days and dlt's bookkeeping and leaves state on the   *)
(* machine; a build adds rows to the carried tables.  A row is known by    *)
(* where it was made: "here", or "carried" from a release.                 *)
(***************************************************************************)
EXTENDS Integers, Sequences

CONSTANTS
  Carried,       \* the carried tables, in the order CARRIED names them
  Releases      \* the release files an operator may name

Kinds == {"rows", "empty", "absent", "malformed"}   \* of a table in a release
TableNames == {Carried[i] : i \in DOMAIN Carried}

ASSUME CarryAssumption ==
  /\ Carried \in Seq(STRING)
  /\ Releases \subseteq [tables : [TableNames -> Kinds], archive : {"none", "good", "bad"}]

Origins == {"here", "carried"}
Ended == {"idle", "done", "refused", "failed"}

VARIABLES
  step,       \* where the restore is; "refused" is a refusal's message and exit 1
  previous,     \* the release it restores from
  force,    \* whether the last restore or clean was told --force
  next,     \* the next table to carry
  wh,       \* the rows each carried table of the warehouse holds
  lake,     \* the landing zone directory: what of it is there, the directory
            \* its catalog names, the rows of PUBLISHED_TABLES, dlt's tables
  dlt,      \* dlt's state on this machine: none, made, or of a finished load
  before,   \* auxiliary: the warehouse when the restore began
  beside    \* auxiliary: whether a load ever ran beside a restore

restoreVars == <<step, previous, force, next, wh, lake, dlt, before, beside>>

NoLake == [parts |-> {}, path |-> "here", days |-> {}, book |-> FALSE]

RestoreTypeOK ==
  /\ step \in Ended \cup {"tables", "unpack", "replace", "copy", "relink"}
  /\ previous \in Releases /\ force \in BOOLEAN /\ next \in 1 .. Len(Carried) + 1
  /\ wh \in [TableNames -> SUBSET Origins]
  /\ before \in [TableNames -> SUBSET Origins]
  /\ lake \in [parts : SUBSET {"dir", "data", "catalog"}, path : {"here", "elsewhere"},
               days : SUBSET Origins, book : BOOLEAN]
  /\ dlt \in {"cold", "new", "knows"} /\ beside \in BOOLEAN

RestoreInit ==
  /\ step = "idle" /\ previous \in Releases /\ force = FALSE /\ next = 1
  /\ wh = [t \in TableNames |-> {}] /\ before = wh
  /\ lake = NoLake /\ dlt = "cold" /\ beside = FALSE

-----------------------------------------------------------------------------
(* The landing zone's refusals. *)

IsCatalog == "catalog" \in lake.parts
Readable == IsCatalog /\ lake.path = "here"    \* DuckLake checks the data path

\* Fault: the preflight counts rows and does not look for dlt's state.
PreflightRowsOnly(onward) ==
  \/ IsCatalog /\ ~Readable /\ step' = "failed"
  \/ Readable /\ lake.days # {} /\ step' = "refused"
  \/ (IsCatalog => Readable /\ lake.days = {}) /\ step' = onward

\* Fault: only dlt's state is asked about; the rows are not counted.
PreflightStateOnly(onward) ==
  \/ dlt # "cold" /\ step' = "refused"
  \/ dlt = "cold" /\ step' = onward

\* Warm state is a refusal, and so are carried rows; a catalog that cannot be
\* attached, or whose Parquet is gone, is an error while they are counted.
Preflight(onward) ==
  \/ dlt # "cold" /\ step' = "refused"
  \/ dlt = "cold" /\ IsCatalog /\ ~Readable /\ step' = "failed"
  \/ dlt = "cold" /\ Readable /\ lake.days # {} /\ step' = "refused"
  \/ dlt = "cold" /\ Readable /\ lake.days # {} /\ "data" \notin lake.parts /\ step' = "failed"
  \/ dlt = "cold" /\ (IsCatalog => Readable /\ lake.days = {}) /\ step' = onward

-----------------------------------------------------------------------------
(* The restore. *)

\* Without an archive beside the database the landing zone is not touched, and
\* its refusals are not asked.
Start(release, forced) ==
  /\ step \in Ended
  /\ previous' = release /\ force' = forced /\ next' = 1 /\ before' = wh
  /\ IF release.archive = "none" THEN step' = "tables" ELSE Preflight("tables")
  /\ UNCHANGED <<wh, lake, dlt, beside>>

\* Fault: an empty table is taken for the end of what the release holds.
KindEndsAtEmpty ==
  IF \E i \in 1 .. next : previous.tables[Carried[i]] = "empty" THEN "empty"
  ELSE previous.tables[Carried[next]]

Kind == previous.tables[Carried[next]]
InTheWay == wh[Carried[next]] # {} /\ ~force

\* One turn of the loop. Each statement commits on its own: what earlier turns
\* carried stays when this one refuses.
CarryTable ==
  /\ step = "tables" /\ next <= Len(Carried)
  /\ \/ /\ Kind = "malformed" \/ (Kind = "rows" /\ InTheWay)
        /\ step' = "refused"
        /\ UNCHANGED <<next, wh>>
     \/ /\ Kind \in {"absent", "empty"}
        /\ next' = next + 1
        /\ UNCHANGED <<step, wh>>
     \/ /\ Kind = "rows" /\ ~InTheWay
        /\ wh' = [wh EXCEPT ![Carried[next]] = {"carried"}]
        /\ next' = next + 1
        /\ UNCHANGED step
  /\ UNCHANGED <<previous, force, lake, dlt, before, beside>>

\* Fault: the loop counts its own end.
CloseTablesCounting ==
  /\ step = "tables" /\ next > Len(Carried)
  /\ step' = IF previous.archive = "none" THEN "done" ELSE "unpack"
  /\ next' = next + 1
  /\ UNCHANGED <<previous, force, wh, lake, dlt, before, beside>>

CloseTables ==
  /\ step = "tables" /\ next > Len(Carried)
  /\ step' = IF previous.archive = "none" THEN "done" ELSE "unpack"
  /\ UNCHANGED <<previous, force, next, wh, lake, dlt, before, beside>>

\* lakehouse.restore asks again, then looks at what was unpacked.
Unpack ==
  /\ step = "unpack"
  /\ Preflight(IF previous.archive = "good" THEN "replace" ELSE "failed")
  /\ UNCHANGED <<previous, force, next, wh, lake, dlt, before, beside>>

RemoveLake ==
  /\ step = "replace"
  /\ lake' = NoLake /\ step' = "copy"
  /\ UNCHANGED <<previous, force, next, wh, dlt, before, beside>>

\* Fault: the archive ships its catalog linked to where it will be unpacked.
CopiedReadable(parts) ==
  [parts |-> parts, path |-> "here",
   days |-> IF "catalog" \in parts THEN {"carried"} ELSE {}, book |-> FALSE]

\* A published landing zone, as far as the copy has come. Its catalog names a
\* directory of its own and has none of dlt's tables.
Copied(parts) ==
  [parts |-> parts, path |-> IF "catalog" \in parts THEN "elsewhere" ELSE "here",
   days |-> IF "catalog" \in parts THEN {"carried"} ELSE {}, book |-> FALSE]

\* copytree makes the directory itself and fails if there is one.
Copy ==
  /\ step = "copy"
  /\ \/ lake.parts # {} /\ step' = "failed" /\ UNCHANGED lake
     \/ lake.parts = {} /\ step' = "relink" /\ lake' = Copied({"dir", "data", "catalog"})
  /\ UNCHANGED <<previous, force, next, wh, dlt, before, beside>>

Relink ==
  /\ step = "relink"
  /\ lake' = [lake EXCEPT !.path = "here"] /\ step' = "done"
  /\ UNCHANGED <<previous, force, next, wh, dlt, before, beside>>

\* The process is stopped, at any step and within the two that move files: rmtree may
\* have taken any of them first, the Parquet under a catalog that still opens.
Crash ==
  /\ step \notin Ended
  /\ step' = "failed"
  /\ \/ UNCHANGED lake
     \/ /\ step = "replace"
        /\ \E parts \in SUBSET lake.parts :
             /\ "dir" \in parts /\ parts # lake.parts
             /\ lake' = [lake EXCEPT !.parts = parts,
                                     !.days = IF "catalog" \in parts THEN @ ELSE {},
                                     !.book = @ /\ "catalog" \in parts]
     \/ /\ step = "copy" /\ lake.parts = {}
        /\ \E parts \in SUBSET {"dir", "data", "catalog"} : "dir" \in parts /\ lake' = Copied(parts)
  /\ UNCHANGED <<previous, force, next, wh, dlt, before, beside>>

-----------------------------------------------------------------------------
(* What else is done on the machine: of it only a load may run beside a       *)
(* restore, since nothing prevents it.                                        *)

\* dlt with state of a finished load looks for its own tables in the catalog.
CanLoad == /\ IsCatalog => Readable
           /\ dlt = "knows" => lake.book

\* A merge reads the days it merges into, so it fails over a catalog whose Parquet is
\* gone; a load of other tables lands, and does not bring the Parquet back.
LoadLands ==
  /\ CanLoad
  /\ \E days \in {{}, {"here"}} :
       /\ days # {} /\ lake.days # {} => "data" \in lake.parts
       /\ lake' = [parts |-> {"dir", "catalog"} \cup (IF lake.days = {} THEN {"data"} ELSE lake.parts),
                   path |-> "here", days |-> lake.days \cup days, book |-> TRUE]
  /\ dlt' = "knows"
  /\ beside' = (beside \/ step \notin Ended)
  /\ UNCHANGED <<step, previous, force, next, wh, before>>

\* It has made the directory and its state by the time it fails.
LoadFails ==
  /\ lake' = [lake EXCEPT !.parts = @ \cup {"dir"}]
  /\ dlt' = IF dlt = "cold" THEN "new" ELSE dlt
  /\ beside' = (beside \/ step \notin Ended)
  /\ UNCHANGED <<step, previous, force, next, wh, before>>

\* dbt's snapshots and the run history are written by separate commands.
BuildAdds(table) ==
  /\ step \in Ended
  /\ wh' = [wh EXCEPT ![table] = @ \cup {"here"}]
  /\ UNCHANGED <<step, previous, force, next, lake, dlt, before, beside>>

\* Fault: the gate counts the snapshots and forgets the run history.
FirstTableOnly == {t \in TableNames : t = Carried[1] /\ wh[t] # {}}

Irreplaceable == {t \in TableNames : wh[t] # {}}

\* `just clean warehouse`: the count is asked before the file is deleted.
CleanWarehouse(forced) ==
  /\ step \in Ended
  /\ Irreplaceable = {} \/ forced
  /\ wh' = [t \in TableNames |-> {}] /\ force' = forced
  /\ UNCHANGED <<step, previous, next, lake, dlt, before, beside>>

\* rm -rf of the landing zone, or of dlt's state: what the refusals ask for.
DeleteByHand ==
  /\ step \in Ended
  /\ \/ lake' = NoLake /\ UNCHANGED dlt
     \/ dlt' = "cold" /\ UNCHANGED lake
  /\ UNCHANGED <<step, previous, force, next, wh, before, beside>>

RestoreNext ==
  \/ \E release \in Releases, forced \in BOOLEAN : Start(release, forced)
  \/ CarryTable \/ CloseTables \/ Unpack \/ RemoveLake \/ Copy \/ Relink \/ Crash
  \/ LoadLands \/ LoadFails
  \/ \E table \in TableNames : BuildAdds(table)
  \/ \E forced \in BOOLEAN : CleanWarehouse(forced)
  \/ DeleteByHand

RestoreSpec == RestoreInit /\ [][RestoreNext]_restoreVars

-----------------------------------------------------------------------------
(* Properties. *)

\* A landing zone that can be read is all there: wherever a restore is stopped,
\* what it leaves is either complete or refused by the attach (lakehouse.relink,
\* after the copy).  Not after a load beside the restore: of the days it landed, a
\* stop within rmtree can leave the catalog without their Parquet.
ReadableIsWhole == ~beside /\ Readable /\ lake.days # {} => "data" \in lake.parts

\* A restored landing zone never meets dlt state of an earlier load, which the
\* next load would fail on for good (lakehouse._refuse_warm_state); a load beside
\* the restore is what no preflight can see.
NextLoadFindsItsTables == ~beside /\ Readable /\ lake.days # {} /\ dlt = "knows" => lake.book

\* A restore removes no row of the landing zone, forced or not, from the first
\* preflight to the last step (lakehouse.restore: "there is no force"), unless a
\* load landed beside it.
LandedDaysStay == [][step \notin Ended /\ ~beside => lake.days \subseteq lake'.days]_restoreVars

\* Without --force no command removes a snapshot or run row, made here or
\* carried (history._restore_tables; justfile, clean).
RevisionsStay == [][~force' => \A t \in TableNames : wh[t] \subseteq wh'[t]]_restoreVars

\* A restore that ends well carried every table the release has rows of, in
\* exactly the release's version, left the others alone, and brought the
\* landing zone if there was one, loads beside it or not (restore_history.run).
DoneMeansCarried ==
  [][step' = "done" /\ step # "done" =>
       /\ \A t \in TableNames :
            wh'[t] = IF previous.tables[t] = "rows" THEN {"carried"} ELSE before[t]
       /\ previous.archive # "none" => Readable' /\ lake'.days = {"carried"} /\ ~lake'.book]_restoreVars
==============================================================================
