--------------------------- MODULE LakeCatalogProofs ---------------------------
(***************************************************************************)
(* What the landing zone keeps for any days and values of weather, any     *)
(* number of snapshots and lost files, and any environment of the person:  *)
(* through loads, expiries, crashes, fixture runs, copies and releases.    *)
(***************************************************************************)
EXTENDS LakeCatalog, TLAPS, FiniteSetTheorems, NaturalsInduction, WellFoundedInduction,
        SequenceTheorems

------------------------------------------------------------------------------
(* Numbers and finite sets. *)

\* A nonempty set of numbers has a least.
LEMMA NatHasMin ==
  ASSUME NEW S \in SUBSET Nat, S # {}
  PROVE  Min(S) \in S /\ \A x \in S : Min(S) <= x
<1>1. IsWellFoundedOn(OpToRel(<, Nat), Nat)
  BY NatLessThanWellFounded
<1>2. PICK m \in S : \A y \in S : ~(<<y, m>> \in OpToRel(<, Nat))
  BY <1>1, WFMin
<1>3. \A y \in S : ~(y < m)
  BY <1>2 DEF OpToRel
<1>4. m \in S /\ \A y \in S : m <= y
  BY <1>3
<1> QED
  BY <1>4 DEF Min

\* The sizes of sets of numbers of which none is the greatest.
Topless == {n \in Nat : \E S \in SUBSET Nat : IsFiniteSet(S) /\ S # {} /\ Cardinality(S) = n
                                              /\ \A x \in S : \E y \in S : y > x}

\* A finite set of numbers has a greatest.
LEMMA FiniteHasMax ==
  ASSUME NEW S \in SUBSET Nat, IsFiniteSet(S), S # {}
  PROVE  Max(S) \in S /\ \A x \in S : x <= Max(S)
<1>1. Topless = {}
  <2> SUFFICES ASSUME Topless # {} PROVE FALSE
    OBVIOUS
  <2>1. IsWellFoundedOn(OpToRel(<, Nat), Nat)
    BY NatLessThanWellFounded
  <2>2. PICK n \in Topless : \A m \in Topless : ~(<<m, n>> \in OpToRel(<, Nat))
    BY <2>1, WFMin DEF Topless
  <2>3. \A m \in Topless : ~(m < n)
    BY <2>2 DEF OpToRel, Topless
  <2>4. PICK T \in SUBSET Nat : IsFiniteSet(T) /\ T # {} /\ Cardinality(T) = n
                                /\ \A x \in T : \E y \in T : y > x
    BY DEF Topless
  <2>5. PICK t \in T : TRUE
    BY <2>4
  <2> DEFINE U == T \ {t}
  <2>6. IsFiniteSet(U) /\ Cardinality(U) = n - 1 /\ n \in Nat /\ n # 0
    BY <2>4, FS_RemoveElement, FS_EmptySet, FS_CardinalityType
  <2>7. U # {}
    BY <2>4
  <2>8. n - 1 \in Nat /\ n - 1 < n
    BY <2>6
  <2>9. n - 1 \notin Topless
    BY <2>3, <2>8
  <2>10. PICK m \in U : \A y \in U : ~(y > m)
    BY <2>6, <2>7, <2>8, <2>9 DEF Topless
  <2>11. m \in Nat /\ t \in Nat /\ T = U \cup {t}
    BY <2>5
  <2>12. PICK y \in T : y > m
    BY <2>4, <2>10
  <2>13. y = t
    BY <2>10, <2>12
  <2>14. \A z \in T : ~(z > t)
    BY <2>10, <2>11, <2>12, <2>13
  <2> QED
    BY <2>4, <2>5, <2>14
<1>2. Cardinality(S) \in Nat
  BY FS_CardinalityType
<1>3. PICK m \in S : \A y \in S : ~(y > m)
  BY <1>1, <1>2 DEF Topless
<1>4. \A y \in S : m >= y
  BY <1>3
<1> QED
  BY <1>3, <1>4 DEF Max

\* What a function makes of a finite set is finite.
LEMMA ImageIsFinite ==
  ASSUME NEW S, IsFiniteSet(S), NEW f, f = [x \in S |-> f[x]]
  PROVE  IsFiniteSet({f[x] : x \in S})
<1> DEFINE T == {f[x] : x \in S}
<1>1. f \in Surjection(S, T)
  BY DEF Surjection
<1> QED
  BY <1>1, FS_Surjection

\* A range up to a number is finite, and so is what lies in it.
LEMMA RangesAreFinite ==
  ASSUME NEW n \in Nat, NEW S \in SUBSET (1 .. n)
  PROVE  IsFiniteSet(S)
<1>1. IsFiniteSet(1 .. n)
  BY FS_Interval
<1> QED
  BY <1>1, FS_Subset

------------------------------------------------------------------------------
(* One catalog. *)

Weathers == "om_weather_daily"

IsFile(f) ==
    /\ f = [table |-> f.table, name |-> f.name, rows |-> f.rows, gone |-> f.gone,
            begin |-> f.begin, end |-> f.end]
    /\ f.name \in Nat /\ f.begin \in Nat \ {0} /\ f.end \in Nat
    /\ \A g \in f.gone : g[2] \in Nat

IsLake(c) ==
    /\ c = [is |-> c.is, path |-> c.path, next |-> c.next, snaps |-> c.snaps,
            files |-> c.files, scheduled |-> c.scheduled]
    /\ c.is \in {"nothing", "blank", "lake"}
    /\ c.next \in Nat \ {0} /\ c.snaps \subseteq 1 .. c.next - 1
    /\ IsFiniteSet(c.files) /\ \A f \in c.files : IsFile(f)
    /\ IsFiniteSet(c.scheduled) /\ c.scheduled \subseteq Nat \ {0}
    /\ c.is # "lake" => c.files = {} /\ c.scheduled = {}

\* The snapshots at which something of a file changed.
Changes(f) == {f.begin, f.end} \cup {g[2] : g \in f.gone}

\* A table's change at e is named at s: a file that a snapshot from e on began is
\* still read there.
IsNamed(c, table, e, s) ==
    \E g \in c.files : g.table = table /\ e <= g.begin /\ Visible(g, s)

\* Every file is read by some snapshot, and every change that a snapshot shows is named there.
Lineage(c) ==
    /\ c.files # {} => c.next - 1 \in c.snaps
    /\ \A f \in c.files : (f.end = 0 \/ f.begin < f.end) /\ \A e \in Changes(f) : e < c.next
    /\ \A f \in c.files : \E s \in c.snaps : Visible(f, s)
    /\ \A f \in c.files, s \in c.snaps : \A e \in Changes(f) \ {0} :
          e <= s => IsNamed(c, f.table, e, s)

\* No two files have one name, and none is deleted that a snapshot reads.
NamesApart(c) ==
    /\ \A f, g \in c.files : f.name = g.name /\ f.name # 0 => f = g
    /\ \A f \in c.files : f.name \notin c.scheduled

Sound(c) == IsLake(c) /\ Lineage(c) /\ NamesApart(c)

\* A row is shown where its file is visible and it was not deleted yet.
LEMMA RowsAre ==
  ASSUME NEW c, NEW table, NEW s, NEW x
  PROVE  x \in Rows(c, table, s) <=>
           \E f \in c.files : /\ f.table = table /\ Visible(f, s)
                              /\ \E r \in f.rows :
                                   /\ \A g \in f.gone : g[1] = r[1] => s < g[2]
                                   /\ x = [day |-> r[1], value |-> r[2], load |-> f.begin]
BY DEF Rows

\* A snapshot the catalog no longer has, or never had, is before its next one.
LEMMA SnapsAreTyped ==
  ASSUME NEW c, IsLake(c)
  PROVE  /\ c.snaps \subseteq Nat /\ IsFiniteSet(c.snaps)
         /\ \A s \in c.snaps : s \in Nat \ {0} /\ s < c.next
<1>1. c.next - 1 \in Nat /\ c.snaps \subseteq 1 .. c.next - 1 /\ c.next \in Nat
  BY DEF IsLake
<1>2. IsFiniteSet(c.snaps)
  BY <1>1, RangesAreFinite
<1> QED
  BY <1>1, <1>2

\* The version a file stands for: the first snapshot that can read it.
VersionOf(c, f) == Min({s \in c.snaps : s >= f.begin})

LEMMA VersionsAre ==
  ASSUME NEW c, NEW table
  PROVE  TableVersions(c, table) = {VersionOf(c, f) : f \in {x \in c.files : x.table = table}}
BY DEF TableVersions, VersionOf

LEMMA VersionIsFirst ==
  ASSUME NEW c, Sound(c), NEW f \in c.files
  PROVE  /\ VersionOf(c, f) \in c.snaps /\ f.begin <= VersionOf(c, f)
         /\ \A s \in c.snaps : f.begin <= s => VersionOf(c, f) <= s
<1> DEFINE later == {s \in c.snaps : s >= f.begin}
<1>1. c.snaps \subseteq Nat /\ f.begin \in Nat
  BY SnapsAreTyped DEF Sound, IsLake, IsFile
<1>2. later \in SUBSET Nat /\ later # {}
  BY <1>1 DEF Sound, Lineage, Visible
<1>3. Min(later) \in later /\ \A s \in later : Min(later) <= s
  BY <1>2, NatHasMin
<1> QED
  BY <1>1, <1>3 DEF VersionOf

LEMMA VersionsAreSnaps ==
  ASSUME NEW c, Sound(c), NEW table
  PROVE  /\ TableVersions(c, table) \subseteq c.snaps
         /\ TableVersions(c, table) \in SUBSET Nat /\ IsFiniteSet(TableVersions(c, table))
<1>1. TableVersions(c, table) \subseteq c.snaps
  BY VersionsAre, VersionIsFirst
<1> QED
  BY <1>1, SnapsAreTyped, FS_Subset DEF Sound

\* Between two snapshots that no version parts, nothing of the table changed.
LEMMA NothingChangedBetween ==
  ASSUME NEW c, Sound(c), NEW table, NEW s \in c.snaps, NEW m \in Nat,
         \A v \in TableVersions(c, table) : v <= s => v <= m,
         NEW f \in c.files, f.table = table, NEW e \in Changes(f), m < e
  PROVE  s < e
<1> SUFFICES ASSUME e <= s PROVE FALSE
  <2>1. e \in Nat /\ s \in Nat
    BY SnapsAreTyped DEF Sound, IsLake, IsFile, Changes
  <2> QED
    BY <2>1
<1>1. e \in Nat /\ s \in Nat /\ e # 0
  BY SnapsAreTyped DEF Sound, IsLake, IsFile, Changes
<1>2. PICK g \in c.files : g.table = table /\ e <= g.begin /\ Visible(g, s)
  BY <1>1 DEF Sound, Lineage, IsNamed
<1>3. g.begin <= s /\ g.begin \in Nat
  BY <1>2 DEF Visible, Sound, IsLake, IsFile
<1>4. /\ VersionOf(c, g) \in Nat /\ VersionOf(c, g) <= s /\ g.begin <= VersionOf(c, g)
  BY <1>2, <1>3, VersionIsFirst, SnapsAreTyped DEF Sound
<1>5. VersionOf(c, g) \in TableVersions(c, table)
  BY <1>2, VersionsAre
<1> QED
  BY <1>1, <1>2, <1>3, <1>4, <1>5

LEMMA RowsStayBetween ==
  ASSUME NEW c, Sound(c), NEW table, NEW s \in c.snaps, NEW m \in Nat, m <= s,
         \A v \in TableVersions(c, table) : v <= s => v <= m
  PROVE  Rows(c, table, s) = Rows(c, table, m)
<1>1. s \in Nat
  BY SnapsAreTyped DEF Sound
<1>2. ASSUME NEW f \in c.files, f.table = table
      PROVE  /\ Visible(f, s) <=> Visible(f, m)
             /\ \A g \in f.gone : s < g[2] <=> m < g[2]
  <2>1. \A e \in Changes(f) : e \in Nat /\ (m < e => s < e)
    BY <1>2, NothingChangedBetween DEF Sound, IsLake, IsFile, Changes
  <2>2. f.begin \in Changes(f) /\ f.end \in Changes(f) /\ \A g \in f.gone : g[2] \in Changes(f)
    BY DEF Changes
  <2>3. \A g \in f.gone : s < g[2] <=> m < g[2]
    BY <1>1, <2>1, <2>2
  <2>4. (f.begin <= s <=> f.begin <= m) /\ (s < f.end <=> m < f.end)
    BY <1>1, <2>1, <2>2
  <2> QED
    BY <2>3, <2>4 DEF Visible
<1>3. \A x : x \in Rows(c, table, s) <=> x \in Rows(c, table, m)
  BY <1>2, RowsAre
<1> QED
  BY <1>3

LEMMA NothingBeforeTheFirst ==
  ASSUME NEW c, IsLake(c), NEW table
  PROVE  Rows(c, table, 0) = {}
<1>1. \A f \in c.files : ~Visible(f, 0)
  BY DEF IsLake, IsFile, Visible
<1>2. \A x : x \notin Rows(c, table, 0)
  BY <1>1, RowsAre
<1> QED
  BY <1>2

\* What VersionsAreTheChanges says of a table of a catalog.
LEMMA VersionsNameTheChanges ==
  ASSUME NEW c, Sound(c), NEW table, NEW s \in c.snaps
  PROVE  LET before == {v \in TableVersions(c, table) : v <= s}
         IN IF before = {} THEN Rows(c, table, s) = {}
            ELSE Rows(c, table, s) = Rows(c, table, Max(before))
<1> DEFINE before == {v \in TableVersions(c, table) : v <= s}
<1>1. s \in Nat
  BY SnapsAreTyped DEF Sound
<1>2. CASE before = {}
  <2>1. Rows(c, table, s) = Rows(c, table, 0)
    BY <1>1, <1>2, RowsStayBetween
  <2>2. Rows(c, table, s) = {}
    BY <2>1, NothingBeforeTheFirst DEF Sound
  <2> QED
    BY <1>2, <2>2
<1>3. CASE before # {}
  <2>1. before \in SUBSET Nat /\ IsFiniteSet(before)
    BY VersionsAreSnaps, FS_Subset
  <2>2. Max(before) \in before /\ \A v \in before : v <= Max(before)
    BY <1>3, <2>1, FiniteHasMax
  <2>3. Max(before) \in Nat /\ Max(before) <= s
    BY <2>1, <2>2
  <2> HIDE DEF before
  <2>4. \A v \in TableVersions(c, table) : v <= s => v <= Max(before)
    BY <2>2 DEF before
  <2>5. Rows(c, table, s) = Rows(c, table, Max(before))
    BY <2>3, <2>4, RowsStayBetween
  <2> QED
    BY <1>3, <2>5 DEF before
<1> QED
  BY <1>2, <1>3

------------------------------------------------------------------------------
(* Commits: one snapshot more, one file more, and files of its table ended or *)
(* with rows deleted.                                                         *)

Follows(f, g, n) ==
    /\ IsFile(g)
    /\ g.table = f.table /\ g.name = f.name /\ g.rows = f.rows /\ g.begin = f.begin
    /\ g.end = f.end \/ (f.end = 0 /\ g.end = n)
    /\ f.gone \subseteq g.gone /\ \A x \in g.gone : x \in f.gone \/ x[2] = n

Commits(c, d, new, become) ==
    /\ IsFile(new) /\ new.begin = c.next /\ new.end = 0 /\ new.gone = {}
    /\ new.name # 0 => new.name \notin Recorded(c)
    /\ become = [f \in c.files |-> become[f]]
    /\ \A f \in c.files : /\ Follows(f, become[f], c.next)
                          /\ become[f] = f \/ f.table = new.table
    /\ d = [is |-> c.is, path |-> c.path, next |-> c.next + 1, snaps |-> c.snaps \cup {c.next},
            files |-> {become[f] : f \in c.files} \cup {new}, scheduled |-> c.scheduled]

LEMMA CommitIsLake ==
  ASSUME NEW c, NEW d, NEW new, NEW become, Sound(c), c.is = "lake", Commits(c, d, new, become)
  PROVE  IsLake(d)
<1>1. /\ d.is = "lake" /\ d.path = c.path /\ d.next = c.next + 1 /\ d.scheduled = c.scheduled
      /\ d.snaps = c.snaps \cup {c.next} /\ d.files = {become[f] : f \in c.files} \cup {new}
  BY DEF Commits
<1>2. d = [is |-> d.is, path |-> d.path, next |-> d.next, snaps |-> d.snaps,
           files |-> d.files, scheduled |-> d.scheduled]
  BY DEF Commits
<1>3. d.next \in Nat \ {0} /\ d.snaps \subseteq 1 .. d.next - 1
  BY <1>1 DEF Sound, IsLake
<1>4. IsFiniteSet(d.files)
  <2>1. IsFiniteSet({become[f] : f \in c.files})
    BY ImageIsFinite DEF Commits, Sound, IsLake
  <2> QED
    BY <1>1, <2>1, FS_AddElement
<1>5. \A f \in d.files : IsFile(f)
  BY <1>1 DEF Commits, Follows
<1>6. IsFiniteSet(d.scheduled) /\ d.scheduled \subseteq Nat \ {0}
  BY <1>1 DEF Sound, IsLake
<1> QED
  BY <1>1, <1>2, <1>3, <1>4, <1>5, <1>6 DEF IsLake

\* A file stays visible where it was, and what is visible at the new snapshot had not ended.
LEMMA FilesStayVisible ==
  ASSUME NEW n \in Nat, NEW f, NEW g, IsFile(f), Follows(f, g, n), NEW s \in Nat, s < n
  PROVE  Visible(g, s) <=> Visible(f, s)
BY DEF IsFile, Follows, Visible

LEMMA ChangesGrow ==
  ASSUME NEW n \in Nat, NEW f, NEW g, IsFile(f), Follows(f, g, n)
  PROVE  Changes(g) \subseteq Changes(f) \cup {n}
BY DEF IsFile, Follows, Changes

LEMMA ChangesAreTyped ==
  ASSUME NEW f, IsFile(f)
  PROVE  Changes(f) \subseteq Nat
BY DEF IsFile, Changes

LEMMA CommitNamesItsChanges ==
  ASSUME NEW c, NEW d, NEW new, NEW become, Sound(c), c.is = "lake", Commits(c, d, new, become),
         NEW f \in d.files, NEW s \in d.snaps, NEW e \in Changes(f) \ {0}, e <= s
  PROVE  IsNamed(d, f.table, e, s)
<1>1. /\ d.snaps = c.snaps \cup {c.next} /\ d.files = {become[x] : x \in c.files} \cup {new}
      /\ IsFile(new) /\ new.begin = c.next /\ new.end = 0 /\ new.gone = {}
      /\ \A x \in c.files : IsFile(x) /\ Follows(x, become[x], c.next)
                            /\ (become[x] = x \/ x.table = new.table)
  BY DEF Commits, Sound, IsLake
<1>2. c.next \in Nat \ {0} /\ \A x \in c.snaps : x \in Nat /\ x < c.next
  BY SnapsAreTyped DEF Sound, IsLake
<1>3. e \in Nat \ {0} /\ s \in Nat /\ s <= c.next /\ (s \in c.snaps \/ s = c.next)
  <2>1. IsFile(f)
    BY <1>1 DEF Follows
  <2> QED
    BY <1>1, <1>2, <2>1, ChangesAreTyped
<1>4. CASE s = c.next /\ f.table = new.table
  <2>1. Visible(new, s) /\ e <= new.begin
    BY <1>1, <1>3, <1>4 DEF Visible
  <2> QED
    BY <1>1, <1>4, <2>1 DEF IsNamed
<1>5. CASE s = c.next /\ f.table # new.table
  <2>1. f \in c.files /\ f # new
    BY <1>1, <1>5 DEF Follows
  <2>2. e < c.next /\ c.next - 1 \in c.snaps /\ e <= c.next - 1
    BY <1>2, <1>3, <2>1 DEF Sound, Lineage
  <2>3. PICK g \in c.files : g.table = f.table /\ e <= g.begin /\ Visible(g, c.next - 1)
    BY <2>1, <2>2 DEF Sound, Lineage, IsNamed
  <2>4. g.end \in Nat /\ g.begin \in Nat /\ g.end < c.next
    BY <2>3 DEF Sound, Lineage, Changes, IsLake, IsFile
  <2>5. Visible(g, s)
    BY <1>2, <1>5, <2>3, <2>4 DEF Visible
  <2>6. g \in d.files
    BY <1>1, <1>5, <2>3
  <2> QED
    BY <2>3, <2>5, <2>6 DEF IsNamed
<1>6. CASE s \in c.snaps
  <2>1. s < c.next /\ e < c.next
    BY <1>2, <1>3, <1>6
  <2>2. f # new
    BY <1>1, <1>2, <2>1 DEF Changes
  <2>3. PICK old \in c.files : f = become[old]
    BY <1>1, <2>2
  <2>4. e \in Changes(old) /\ f.table = old.table
    BY <1>1, <1>2, <2>1, <2>3, ChangesGrow DEF Follows
  <2>5. PICK g \in c.files : g.table = old.table /\ e <= g.begin /\ Visible(g, s)
    BY <1>3, <1>6, <2>4 DEF Sound, Lineage, IsNamed
  <2>6. Follows(g, become[g], c.next) /\ IsFile(g) /\ become[g] \in d.files
    BY <1>1, <2>5
  <2>7. Visible(become[g], s)
    BY <1>2, <1>3, <2>1, <2>5, <2>6, FilesStayVisible
  <2>8. become[g].table = f.table /\ e <= become[g].begin
    BY <2>4, <2>5, <2>6 DEF Follows
  <2> QED
    BY <2>6, <2>7, <2>8 DEF IsNamed
<1> QED
  BY <1>3, <1>4, <1>5, <1>6

LEMMA CommitIsSound ==
  ASSUME NEW c, NEW d, NEW new, NEW become, Sound(c), c.is = "lake", Commits(c, d, new, become)
  PROVE  Sound(d)
<1>1. /\ d.next = c.next + 1 /\ d.scheduled = c.scheduled
      /\ d.snaps = c.snaps \cup {c.next} /\ d.files = {become[x] : x \in c.files} \cup {new}
      /\ IsFile(new) /\ new.begin = c.next /\ new.end = 0 /\ new.gone = {}
      /\ \A x \in c.files : IsFile(x) /\ Follows(x, become[x], c.next)
  BY DEF Commits, Sound, IsLake
<1>2. c.next \in Nat \ {0} /\ \A x \in c.snaps : x \in Nat /\ x < c.next
  BY SnapsAreTyped DEF Sound, IsLake
<1>3. d.files # {} => d.next - 1 \in d.snaps
  BY <1>1, <1>2
<1>4. ASSUME NEW f \in d.files
      PROVE  /\ f.end = 0 \/ f.begin < f.end
             /\ \A e \in Changes(f) : e < d.next
             /\ \E s \in d.snaps : Visible(f, s)
  <2>1. CASE f = new
    BY <1>1, <1>2, <2>1 DEF Changes, Visible
  <2>2. CASE f # new
    <3>1. PICK old \in c.files : f = become[old]
      BY <1>1, <2>2
    <3>2. IsFile(old) /\ Follows(old, f, c.next)
      BY <1>1, <3>1
    <3>3. (old.end = 0 \/ old.begin < old.end) /\ \A e \in Changes(old) : e \in Nat /\ e < c.next
      BY <3>1, <3>2, ChangesAreTyped DEF Sound, Lineage
    <3>4. \A e \in Changes(f) : e < d.next
      BY <1>1, <1>2, <3>2, <3>3, ChangesGrow
    <3>5. f.end = 0 \/ f.begin < f.end
      BY <1>2, <3>2, <3>3 DEF Follows, Changes
    <3>6. PICK s \in c.snaps : Visible(old, s)
      BY <3>1 DEF Sound, Lineage
    <3>7. Visible(f, s)
      BY <1>2, <3>2, <3>6, FilesStayVisible
    <3> QED
      BY <1>1, <3>4, <3>5, <3>6, <3>7
  <2> QED
    BY <2>1, <2>2
<1>5. \A f \in d.files, s \in d.snaps : \A e \in Changes(f) \ {0} :
          e <= s => IsNamed(d, f.table, e, s)
  BY CommitNamesItsChanges
<1>6. NamesApart(d)
  <2>1. \A x \in c.files : become[x].name = x.name
    BY <1>1 DEF Follows
  <2>2. ASSUME NEW f \in d.files, NEW g \in d.files, f.name = g.name, f.name # 0
        PROVE  f = g
    <3>1. new.name # 0 => \A x \in c.files : x.name # new.name
      BY DEF Commits, Recorded
    <3> QED
      BY <1>1, <2>1, <2>2, <3>1 DEF Sound, NamesApart
  <2>3. ASSUME NEW f \in d.files
        PROVE  f.name \notin d.scheduled
    <3>1. new.name \notin c.scheduled
      BY DEF Commits, Recorded, Sound, IsLake
    <3> QED
      BY <1>1, <2>1, <3>1 DEF Sound, NamesApart
  <2> QED
    BY <2>2, <2>3 DEF NamesApart
<1>7. Lineage(d)
  BY <1>3, <1>4, <1>5 DEF Lineage
<1> QED
  BY <1>6, <1>7, CommitIsLake DEF Sound

\* A commit leaves what its predecessors showed,
LEMMA CommitKeepsRows ==
  ASSUME NEW c, NEW d, NEW new, NEW become, Sound(c), Commits(c, d, new, become),
         NEW table, NEW s \in Nat, s < c.next
  PROVE  Rows(d, table, s) = Rows(c, table, s)
<1>1. /\ d.files = {become[x] : x \in c.files} \cup {new} /\ new.begin = c.next
      /\ \A x \in c.files : IsFile(x) /\ Follows(x, become[x], c.next)
  BY DEF Commits, Sound, IsLake
<1>2. c.next \in Nat
  BY DEF Sound, IsLake
<1>3. ~Visible(new, s)
  BY <1>1, <1>2 DEF Visible
<1>4. ASSUME NEW f \in c.files
      PROVE  /\ Visible(become[f], s) <=> Visible(f, s)
             /\ become[f].table = f.table /\ become[f].rows = f.rows /\ become[f].begin = f.begin
             /\ \A r : (\A g \in become[f].gone : g[1] = r[1] => s < g[2])
                         <=> (\A g \in f.gone : g[1] = r[1] => s < g[2])
  <2>1. IsFile(f) /\ Follows(f, become[f], c.next)
    BY <1>1
  <2>2. Visible(become[f], s) <=> Visible(f, s)
    BY <1>2, <2>1, FilesStayVisible
  <2>3. f.gone \subseteq become[f].gone /\ \A g \in become[f].gone : g \in f.gone \/ s < g[2]
    BY <2>1 DEF Follows
  <2> QED
    BY <2>1, <2>2, <2>3 DEF Follows
<1>5. \A x : x \in Rows(d, table, s) <=> x \in Rows(c, table, s)
  BY <1>1, <1>3, <1>4, RowsAre
<1> QED
  BY <1>5

\* and names one version more, of its own table.
LEMMA CommitAddsAVersion ==
  ASSUME NEW c, NEW d, NEW new, NEW become, Sound(c), c.is = "lake", Commits(c, d, new, become),
         NEW table
  PROVE  TableVersions(d, table) =
           TableVersions(c, table) \cup (IF table = new.table THEN {c.next} ELSE {})
<1>1. /\ d.snaps = c.snaps \cup {c.next} /\ d.files = {become[x] : x \in c.files} \cup {new}
      /\ new.begin = c.next /\ \A x \in c.files : Follows(x, become[x], c.next)
  BY DEF Commits
<1>2. c.next \in Nat /\ \A x \in c.snaps : x \in Nat /\ x < c.next
  BY SnapsAreTyped DEF Sound, IsLake
<1>3. Sound(d) /\ \A f \in c.files : become[f] \in d.files /\ become[f].begin = f.begin
                                     /\ become[f].table = f.table
  BY <1>1, CommitIsSound DEF Follows
<1>4. ASSUME NEW f \in c.files
      PROVE  VersionOf(d, become[f]) = VersionOf(c, f)
  <2>1. /\ VersionOf(c, f) \in c.snaps /\ f.begin <= VersionOf(c, f)
        /\ \A s \in c.snaps : f.begin <= s => VersionOf(c, f) <= s
    BY VersionIsFirst
  <2>2. /\ VersionOf(d, become[f]) \in d.snaps /\ f.begin <= VersionOf(d, become[f])
        /\ \A s \in d.snaps : f.begin <= s => VersionOf(d, become[f]) <= s
    BY <1>3, VersionIsFirst
  <2> QED
    BY <1>1, <1>2, <2>1, <2>2
<1>5. VersionOf(d, new) = c.next
  <2>1. /\ VersionOf(d, new) \in d.snaps /\ new.begin <= VersionOf(d, new)
    BY <1>1, <1>3, VersionIsFirst
  <2> QED
    BY <1>1, <1>2, <2>1
<1>6. \A v : v \in TableVersions(c, table) <=>
              \E f \in c.files : f.table = table /\ v = VersionOf(c, f)
  BY VersionsAre
<1>7. \A v : v \in TableVersions(d, table) <=>
              \E f \in d.files : f.table = table /\ v = VersionOf(d, f)
  BY VersionsAre
<1> QED
  BY <1>1, <1>3, <1>4, <1>5, <1>6, <1>7

------------------------------------------------------------------------------
(* The commits there are: dlt's merge, its replace, and a release's only one. *)

\* A catalog's fields, and what is left of them when one is changed.
IsRecord(c) ==
    c = [is |-> c.is, path |-> c.path, next |-> c.next, snaps |-> c.snaps,
         files |-> c.files, scheduled |-> c.scheduled]

LEMMA FieldsChange ==
  ASSUME NEW c, IsRecord(c), NEW v
  PROVE  /\ [c EXCEPT !.is = v] = [is |-> v, path |-> c.path, next |-> c.next, snaps |-> c.snaps,
                                  files |-> c.files, scheduled |-> c.scheduled]
         /\ [c EXCEPT !.path = v] = [is |-> c.is, path |-> v, next |-> c.next, snaps |-> c.snaps,
                                    files |-> c.files, scheduled |-> c.scheduled]
         /\ [c EXCEPT !.next = v] = [is |-> c.is, path |-> c.path, next |-> v, snaps |-> c.snaps,
                                    files |-> c.files, scheduled |-> c.scheduled]
         /\ [c EXCEPT !.snaps = v] = [is |-> c.is, path |-> c.path, next |-> c.next, snaps |-> v,
                                     files |-> c.files, scheduled |-> c.scheduled]
         /\ [c EXCEPT !.files = v] = [is |-> c.is, path |-> c.path, next |-> c.next,
                                     snaps |-> c.snaps, files |-> v, scheduled |-> c.scheduled]
         /\ [c EXCEPT !.scheduled = v] = [is |-> c.is, path |-> c.path, next |-> c.next,
                                         snaps |-> c.snaps, files |-> c.files, scheduled |-> v]
BY DEF IsRecord

LEMMA SnapshotIs ==
  ASSUME NEW c, IsLake(c)
  PROVE  Snapshot(c) = [is |-> c.is, path |-> c.path, next |-> c.next + 1,
                        snaps |-> c.snaps \cup {c.next}, files |-> c.files,
                        scheduled |-> c.scheduled]
<1> DEFINE more == c.snaps \cup {c.next}
<1> DEFINE later == c.next + 1
<1> DEFINE part == [c EXCEPT !.snaps = more]
<1>1. Snapshot(c) = [part EXCEPT !.next = later]
  BY DEF Snapshot
<1> HIDE DEF more, later
<1>2. part = [is |-> c.is, path |-> c.path, next |-> c.next, snaps |-> more,
              files |-> c.files, scheduled |-> c.scheduled]
  BY FieldsChange DEF IsLake, IsRecord
<1> HIDE DEF part
<1>3. IsRecord(part)
  BY <1>2 DEF IsRecord
<1>4. [part EXCEPT !.next = later] =
        [is |-> part.is, path |-> part.path, next |-> later, snaps |-> part.snaps,
         files |-> part.files, scheduled |-> part.scheduled]
  BY <1>3, FieldsChange
<1> QED
  BY <1>1, <1>2, <1>4 DEF more, later

LEMMA SnapshotTakes ==
  ASSUME NEW c, IsLake(c), NEW files
  PROVE  [Snapshot(c) EXCEPT !.files = files] =
           [is |-> c.is, path |-> c.path, next |-> c.next + 1, snaps |-> c.snaps \cup {c.next},
            files |-> files, scheduled |-> c.scheduled]
<1> DEFINE snap == Snapshot(c)
<1>1. snap = [is |-> c.is, path |-> c.path, next |-> c.next + 1, snaps |-> c.snaps \cup {c.next},
              files |-> c.files, scheduled |-> c.scheduled]
  BY SnapshotIs
<1> HIDE DEF snap
<1>2. IsRecord(snap)
  BY <1>1 DEF IsRecord
<1>3. [snap EXCEPT !.files = files] =
        [is |-> snap.is, path |-> snap.path, next |-> snap.next, snaps |-> snap.snaps,
         files |-> files, scheduled |-> snap.scheduled]
  BY <1>2, FieldsChange
<1>4. [snap EXCEPT !.files = files] =
        [is |-> c.is, path |-> c.path, next |-> c.next + 1, snaps |-> c.snaps \cup {c.next},
         files |-> files, scheduled |-> c.scheduled]
  BY <1>1, <1>3
<1> QED
  BY <1>4 DEF snap

LEMMA NewFileIs ==
  ASSUME NEW c, IsLake(c), NEW table, NEW name \in Nat, NEW rows
  PROVE  LET new == File(c, table, name, rows)
         IN /\ IsFile(new) /\ new.begin = c.next /\ new.end = 0 /\ new.gone = {}
            /\ new.name = name /\ new.table = table /\ new.rows = rows
BY DEF File, IsFile, IsLake

LEMMA DeletedFollows ==
  ASSUME NEW f, IsFile(f), f.end = 0, NEW days, NEW n \in Nat
  PROVE  Follows(f, Deleted(f, days, n), n)
<1> DEFINE hit == {r[1] : r \in f.rows} \ {g[1] : g \in f.gone}
<1> DEFINE more == {<<d, n>> : d \in hit \cap days}
<1>1. \/ Deleted(f, days, n) = [f EXCEPT !.end = n]
      \/ Deleted(f, days, n) = [f EXCEPT !.gone = @ \cup more]
  BY DEF Deleted
<1>2. \A x \in more : x[2] = n
  OBVIOUS
<1> HIDE DEF more
<1>3. CASE Deleted(f, days, n) = [f EXCEPT !.end = n]
  BY <1>3 DEF IsFile, Follows
<1>4. CASE Deleted(f, days, n) = [f EXCEPT !.gone = @ \cup more]
  BY <1>2, <1>4 DEF IsFile, Follows
<1> QED
  BY <1>1, <1>3, <1>4

\* What a merge makes of the files, and a replace.
Merging(c, rows) ==
    [f \in c.files |-> IF f.table = Weathers /\ f.end = 0
                       THEN Deleted(f, {r[1] : r \in rows}, c.next) ELSE f]

Replacing(c, table) ==
    [f \in c.files |-> IF f.table = table /\ f.end = 0 THEN [f EXCEPT !.end = c.next] ELSE f]

LEMMA MergeCommits ==
  ASSUME NEW c, IsLake(c), NEW name \in Nat, NEW rows, name # 0 => name \notin Recorded(c)
  PROVE  Commits(c, MergedInto(c, name, rows), File(c, Weathers, name, rows), Merging(c, rows))
<1> DEFINE new == File(c, Weathers, name, rows)
<1> DEFINE become == Merging(c, rows)
<1>1. /\ IsFile(new) /\ new.begin = c.next /\ new.end = 0 /\ new.gone = {}
      /\ new.name = name /\ new.table = Weathers
  BY NewFileIs
<1>2. become = [f \in c.files |-> become[f]]
  BY DEF Merging
<1>3. ASSUME NEW f \in c.files
      PROVE  Follows(f, become[f], c.next) /\ (become[f] = f \/ f.table = Weathers)
  <2>1. IsFile(f) /\ c.next \in Nat
    BY DEF IsLake
  <2>2. Follows(f, f, c.next)
    BY <2>1 DEF Follows
  <2>3. f.end = 0 => Follows(f, Deleted(f, {r[1] : r \in rows}, c.next), c.next)
    BY <2>1, DeletedFollows
  <2> QED
    BY <2>2, <2>3 DEF Merging
<1>4. MergedInto(c, name, rows) =
        [Snapshot(c) EXCEPT !.files = {become[f] : f \in c.files} \cup {new}]
  <2>1. Snapshot(c).files = c.files
    BY SnapshotIs
  <2> QED
    BY <2>1 DEF MergedInto, Merging, Weathers
<1> HIDE DEF new, become
<1>5. MergedInto(c, name, rows) =
        [is |-> c.is, path |-> c.path, next |-> c.next + 1, snaps |-> c.snaps \cup {c.next},
         files |-> {become[f] : f \in c.files} \cup {new}, scheduled |-> c.scheduled]
  BY <1>4, SnapshotTakes
<1>6. Commits(c, MergedInto(c, name, rows), new, become)
  BY <1>1, <1>2, <1>3, <1>5 DEF Commits
<1> QED
  BY <1>6 DEF new, become

LEMMA ReplaceCommits ==
  ASSUME NEW c, IsLake(c), NEW table, NEW name \in Nat, name # 0 => name \notin Recorded(c)
  PROVE  Commits(c, Replaced(c, table, name), File(c, table, name, {<<0, 0>>}),
                 Replacing(c, table))
<1> DEFINE new == File(c, table, name, {<<0, 0>>})
<1> DEFINE become == Replacing(c, table)
<1>1. /\ IsFile(new) /\ new.begin = c.next /\ new.end = 0 /\ new.gone = {}
      /\ new.name = name /\ new.table = table
  BY NewFileIs
<1>2. become = [f \in c.files |-> become[f]]
  BY DEF Replacing
<1>3. ASSUME NEW f \in c.files
      PROVE  Follows(f, become[f], c.next) /\ (become[f] = f \/ f.table = table)
  <2>1. IsFile(f) /\ c.next \in Nat
    BY DEF IsLake
  <2>2. Follows(f, f, c.next)
    BY <2>1 DEF Follows
  <2>3. f.end = 0 => Follows(f, [f EXCEPT !.end = c.next], c.next)
    BY <2>1 DEF Follows, IsFile
  <2> QED
    BY <2>2, <2>3 DEF Replacing
<1>4. Replaced(c, table, name) =
        [Snapshot(c) EXCEPT !.files = {become[f] : f \in c.files} \cup {new}]
  <2>1. Snapshot(c).files = c.files
    BY SnapshotIs
  <2> QED
    BY <2>1 DEF Replaced, Replacing
<1> HIDE DEF new, become
<1>5. Replaced(c, table, name) =
        [is |-> c.is, path |-> c.path, next |-> c.next + 1, snaps |-> c.snaps \cup {c.next},
         files |-> {become[f] : f \in c.files} \cup {new}, scheduled |-> c.scheduled]
  BY <1>4, SnapshotTakes
<1>6. Commits(c, Replaced(c, table, name), new, become)
  BY <1>1, <1>2, <1>3, <1>5 DEF Commits
<1> QED
  BY <1>6 DEF new, become

LEMMA NewCatalogIsSound ==
  ASSUME NEW path
  PROVE  /\ Sound(NewCatalog(path)) /\ NewCatalog(path).is = "lake"
         /\ NewCatalog(path).path = path /\ NewCatalog(path).files = {}
         /\ NewCatalog(path).snaps = {} /\ NewCatalog(path).next = 1
         /\ Recorded(NewCatalog(path)) = {}
<1> DEFINE new == NewCatalog(path)
<1>1. new = [is |-> "lake", path |-> path, next |-> 1, snaps |-> {}, files |-> {}, scheduled |-> {}]
  <2> DEFINE part == [NoCatalog EXCEPT !.is = "lake"]
  <2>1. new = [part EXCEPT !.path = path]
    BY DEF NewCatalog
  <2>2. part = [is |-> "lake", path |-> <<>>, next |-> 1, snaps |-> {}, files |-> {},
                scheduled |-> {}]
    <3>1. IsRecord(NoCatalog)
      BY DEF NoCatalog, IsRecord
    <3>2. part = [is |-> "lake", path |-> NoCatalog.path, next |-> NoCatalog.next,
                  snaps |-> NoCatalog.snaps, files |-> NoCatalog.files,
                  scheduled |-> NoCatalog.scheduled]
      BY <3>1, FieldsChange
    <3> HIDE DEF part
    <3> QED
      BY <3>2 DEF NoCatalog
  <2> HIDE DEF part
  <2>3. IsRecord(part)
    BY <2>2 DEF IsRecord
  <2>4. [part EXCEPT !.path = path] =
          [is |-> part.is, path |-> path, next |-> part.next, snaps |-> part.snaps,
           files |-> part.files, scheduled |-> part.scheduled]
    BY <2>3, FieldsChange
  <2> QED
    BY <2>1, <2>2, <2>4
<1> HIDE DEF new
<1>2. IsLake(new)
  BY <1>1, FS_EmptySet DEF IsLake
<1>3. Sound(new) /\ Recorded(new) = {}
  BY <1>1, <1>2 DEF Sound, Lineage, NamesApart, Recorded
<1> QED
  BY <1>1, <1>3 DEF new

LEMMA NoCatalogIsSound ==
  Sound(NoCatalog) /\ NoCatalog.is = "nothing" /\ NoCatalog.files = {}
<1>1. IsLake(NoCatalog)
  BY FS_EmptySet DEF NoCatalog, IsLake
<1>2. Sound(NoCatalog)
  BY <1>1 DEF Sound, NoCatalog, Lineage, NamesApart
<1> QED
  BY <1>2 DEF NoCatalog

\* An empty file is as good as none.
LEMMA BlankIsSound ==
  ASSUME NEW c, Sound(c), c.is = "nothing"
  PROVE  LET d == [c EXCEPT !.is = "blank"]
         IN Sound(d) /\ d.files = {} /\ d.is = "blank"
<1> DEFINE d == [c EXCEPT !.is = "blank"]
<1>1. d = [is |-> "blank", path |-> c.path, next |-> c.next, snaps |-> c.snaps,
           files |-> c.files, scheduled |-> c.scheduled]
  BY FieldsChange DEF Sound, IsLake, IsRecord
<1> HIDE DEF d
<1>2. c.files = {} /\ c.scheduled = {}
  BY DEF Sound, IsLake
<1>3. IsLake(d)
  BY <1>1, <1>2 DEF Sound, IsLake
<1>4. Sound(d)
  BY <1>1, <1>2, <1>3 DEF Sound, Lineage, NamesApart
<1> QED
  BY <1>1, <1>2, <1>4 DEF d

\* A release's catalog is new, or its first commit.
LEMMA PublishedIs ==
  ASSUME NEW c, NEW name \in Nat
  PROVE  LET new == NewCatalog(<<"release">>)
             rows == {<<r.day, r.value>> : r \in Weather(c)}
             become == [f \in {} |-> f]
         IN \/ Published(c, name) = new /\ \A f \in c.files : f.table # Weathers
            \/ Commits(new, Published(c, name), File(new, Weathers, name, rows), become)
<1> DEFINE new == NewCatalog(<<"release">>)
<1> DEFINE rows == {<<r.day, r.value>> : r \in Weather(c)}
<1> DEFINE become == [f \in {} |-> f]
<1> DEFINE file == File(new, Weathers, name, rows)
<1>1. CASE \A f \in c.files : f.table # "om_weather_daily"
  BY <1>1 DEF Published, Weathers
<1>2. CASE ~(\A f \in c.files : f.table # "om_weather_daily")
  <2>1. Published(c, name) = [Snapshot(new) EXCEPT !.files = {file}]
    BY <1>2 DEF Published, Weathers
  <2>2. /\ new.files = {} /\ IsLake(new) /\ Recorded(new) = {}
    BY NewCatalogIsSound DEF Sound
  <2>3. /\ IsFile(file) /\ file.begin = new.next /\ file.end = 0 /\ file.gone = {}
        /\ file.name = name
    BY <2>2, NewFileIs
  <2> HIDE DEF new, file
  <2>4. Published(c, name) =
          [is |-> new.is, path |-> new.path, next |-> new.next + 1,
           snaps |-> new.snaps \cup {new.next}, files |-> {file}, scheduled |-> new.scheduled]
    BY <2>1, <2>2, SnapshotTakes
  <2>5. {become[f] : f \in new.files} \cup {file} = {file}
    BY <2>2
  <2>6. become = [f \in new.files |-> become[f]]
    BY <2>2
  <2>7. Commits(new, Published(c, name), file, become)
    BY <2>2, <2>3, <2>4, <2>5, <2>6 DEF Commits
  <2> QED
    BY <2>7 DEF new, file
<1> QED
  BY <1>1, <1>2

------------------------------------------------------------------------------
(* Expiry of what came before a snapshot that is kept. *)

LEMMA ExpiredIs ==
  ASSUME NEW c, IsLake(c), NEW before
  PROVE  LET kept == {s \in c.snaps : s >= before}
             lost == {f \in c.files : \A s \in kept : ~Visible(f, s)}
         IN Expired(c, before) =
              [is |-> c.is, path |-> c.path, next |-> c.next, snaps |-> kept,
               files |-> c.files \ lost,
               scheduled |-> c.scheduled \cup ({f.name : f \in lost} \ {0})]
<1> DEFINE kept == {s \in c.snaps : s >= before}
<1> DEFINE lost == {f \in c.files : \A s \in kept : ~Visible(f, s)}
<1> DEFINE left == c.files \ lost
<1> DEFINE names == c.scheduled \cup ({f.name : f \in lost} \ {0})
<1> DEFINE fewer == [c EXCEPT !.snaps = kept]
<1> DEFINE part == [fewer EXCEPT !.files = left]
<1>1. Expired(c, before) = [part EXCEPT !.scheduled = names]
  BY DEF Expired
<1> HIDE DEF kept, left, names
<1>2. fewer = [is |-> c.is, path |-> c.path, next |-> c.next, snaps |-> kept,
               files |-> c.files, scheduled |-> c.scheduled]
  BY FieldsChange DEF IsLake, IsRecord
<1> HIDE DEF fewer
<1>3. IsRecord(fewer)
  BY <1>2 DEF IsRecord
<1>4. part = [is |-> fewer.is, path |-> fewer.path, next |-> fewer.next, snaps |-> fewer.snaps,
              files |-> left, scheduled |-> fewer.scheduled]
  BY <1>3, FieldsChange
<1>5. IsRecord(part)
  BY <1>4 DEF IsRecord
<1> HIDE DEF part
<1>6. [part EXCEPT !.scheduled = names] =
        [is |-> part.is, path |-> part.path, next |-> part.next, snaps |-> part.snaps,
         files |-> part.files, scheduled |-> names]
  BY <1>5, FieldsChange
<1> QED
  BY <1>1, <1>2, <1>4, <1>6 DEF kept, left, names

LEMMA ExpiredIsSound ==
  ASSUME NEW c, Sound(c), c.is = "lake", NEW before \in c.snaps
  PROVE  Sound(Expired(c, before))
<1> DEFINE d == Expired(c, before)
<1> DEFINE kept == {s \in c.snaps : s >= before}
<1> DEFINE lost == {f \in c.files : \A s \in kept : ~Visible(f, s)}
<1> DEFINE names == {f.name : f \in lost} \ {0}
<1>1. /\ d = [is |-> d.is, path |-> d.path, next |-> d.next, snaps |-> d.snaps,
              files |-> d.files, scheduled |-> d.scheduled]
      /\ d.is = "lake" /\ d.next = c.next /\ d.snaps = kept /\ d.files = c.files \ lost
      /\ d.scheduled = c.scheduled \cup names
  BY ExpiredIs DEF Sound
<1>2. before \in Nat /\ c.next \in Nat /\ \A s \in c.snaps : s \in Nat /\ s < c.next
  BY SnapsAreTyped DEF Sound, IsLake
<1>3. IsFiniteSet(lost) /\ IsFiniteSet(d.files)
  BY <1>1, FS_Subset DEF Sound, IsLake
<1>4. IsFiniteSet(names) /\ names \subseteq Nat \ {0}
  <2> DEFINE f == [x \in lost |-> x.name]
  <2>1. IsFiniteSet({f[x] : x \in lost})
    <3> HIDE DEF lost
    <3> QED
      BY <1>3, ImageIsFinite
  <2>2. names \subseteq {f[x] : x \in lost}
    OBVIOUS
  <2>3. IsFiniteSet(names)
    BY <2>1, <2>2, FS_Subset
  <2>4. \A x \in lost : x.name \in Nat
    BY DEF Sound, IsLake, IsFile
  <2> QED
    BY <2>3, <2>4
<1>5. IsLake(d)
  <2>1. IsFiniteSet(d.scheduled)
    <3>1. IsFiniteSet(c.scheduled)
      BY DEF Sound, IsLake
    <3> HIDE DEF names, d
    <3>2. IsFiniteSet(c.scheduled \cup names)
      BY <1>4, <3>1, FS_Union
    <3> QED
      BY <1>1, <3>2
  <2>2. d.snaps \subseteq 1 .. d.next - 1 /\ d.next \in Nat \ {0}
    BY <1>1 DEF Sound, IsLake
  <2>3. \A f \in d.files : IsFile(f)
    BY <1>1 DEF Sound, IsLake
  <2>4. d.scheduled \subseteq Nat \ {0}
    BY <1>1, <1>4 DEF Sound, IsLake
  <2> QED
    BY <1>1, <1>3, <2>1, <2>2, <2>3, <2>4 DEF IsLake
<1>6. \A f \in d.files : f \in c.files /\ \E s \in d.snaps : Visible(f, s)
  BY <1>1
<1>7. \A f \in c.files, s \in d.snaps : Visible(f, s) => f \in d.files
  BY <1>1
<1>8. Lineage(d)
  <2>1. d.files # {} => d.next - 1 \in d.snaps
    BY <1>1, <1>2 DEF Sound, Lineage
  <2>2. \A f \in d.files : (f.end = 0 \/ f.begin < f.end) /\ \A e \in Changes(f) : e < d.next
    BY <1>1, <1>6 DEF Sound, Lineage
  <2>3. ASSUME NEW f \in d.files, NEW s \in d.snaps, NEW e \in Changes(f) \ {0}, e <= s
        PROVE  IsNamed(d, f.table, e, s)
    <3>1. f \in c.files /\ s \in c.snaps
      BY <1>1
    <3>2. PICK g \in c.files : g.table = f.table /\ e <= g.begin /\ Visible(g, s)
      BY <2>3, <3>1 DEF Sound, Lineage, IsNamed
    <3> QED
      BY <1>7, <3>2 DEF IsNamed
  <2> QED
    BY <1>6, <2>1, <2>2, <2>3 DEF Lineage
<1>9. NamesApart(d)
  <2>1. \A f \in d.files : f \in c.files /\ f \notin lost
    BY <1>1
  <2>2. ASSUME NEW f \in d.files
        PROVE  f.name \notin d.scheduled
    <3>1. f.name \notin c.scheduled
      BY <2>1 DEF Sound, NamesApart
    <3>2. f.name \notin names
      <4>1. \A x \in lost : x \in c.files
        OBVIOUS
      <4> QED
        BY <2>1, <4>1 DEF Sound, NamesApart
    <3> QED
      BY <1>1, <3>1, <3>2
  <2> QED
    BY <2>1, <2>2 DEF Sound, NamesApart
<1> QED
  BY <1>5, <1>8, <1>9 DEF Sound

\* What an expiry keeps shows what it showed,
LEMMA ExpiredKeepsRows ==
  ASSUME NEW c, IsLake(c), NEW before, NEW table, NEW s \in c.snaps, s >= before
  PROVE  Rows(Expired(c, before), table, s) = Rows(c, table, s)
<1> DEFINE kept == {x \in c.snaps : x >= before}
<1> DEFINE d == Expired(c, before)
<1>1. d.files = {f \in c.files : \E x \in kept : Visible(f, x)}
  BY ExpiredIs
<1>2. s \in kept
  OBVIOUS
<1>3. \A f \in c.files : Visible(f, s) => f \in d.files
  BY <1>1, <1>2
<1>4. \A f \in d.files : f \in c.files
  BY <1>1
<1> HIDE DEF d
<1>5. \A x : x \in Rows(d, table, s) <=> x \in Rows(c, table, s)
  BY <1>3, <1>4, RowsAre
<1> QED
  BY <1>5 DEF d

\* and of a table it expires by, the versions from there on and no others.
LEMMA ExpiredKeepsVersions ==
  ASSUME NEW c, Sound(c), c.is = "lake", NEW table, NEW before \in TableVersions(c, table)
  PROVE  TableVersions(Expired(c, before), table) = {v \in TableVersions(c, table) : v >= before}
<1> DEFINE d == Expired(c, before)
<1>1. before \in c.snaps /\ before \in Nat
  BY VersionsAreSnaps
<1>2. Sound(d)
  BY <1>1, ExpiredIsSound
<1>3. /\ d.snaps = {s \in c.snaps : s >= before}
      /\ d.files = {f \in c.files : \E s \in d.snaps : Visible(f, s)}
  BY ExpiredIs DEF Sound
<1> HIDE DEF d
<1>4. \A s \in c.snaps : s \in Nat
  BY SnapsAreTyped DEF Sound
<1>5. \A f \in c.files : f.begin \in Nat /\ f.end \in Nat
  BY DEF Sound, IsLake, IsFile
<1>6. \A v : v \in TableVersions(c, table) <=>
              \E f \in c.files : f.table = table /\ v = VersionOf(c, f)
  BY VersionsAre
<1>7. \A v : v \in TableVersions(d, table) <=>
              \E f \in d.files : f.table = table /\ v = VersionOf(d, f)
  BY VersionsAre
<1>8. ASSUME NEW f \in d.files, f.table = table
      PROVE  VersionOf(d, f) \in TableVersions(c, table) /\ VersionOf(d, f) >= before
  <2>1. f \in c.files
    BY <1>3
  <2>2. /\ VersionOf(d, f) \in d.snaps /\ f.begin <= VersionOf(d, f)
        /\ \A s \in d.snaps : f.begin <= s => VersionOf(d, f) <= s
    BY <1>2, VersionIsFirst
  <2>3. /\ VersionOf(c, f) \in c.snaps /\ f.begin <= VersionOf(c, f)
        /\ \A s \in c.snaps : f.begin <= s => VersionOf(c, f) <= s
    BY <2>1, VersionIsFirst
  <2>4. CASE VersionOf(c, f) >= before
    <3>1. VersionOf(c, f) = VersionOf(d, f)
      BY <1>3, <1>4, <2>2, <2>3, <2>4
    <3> QED
      BY <1>6, <1>8, <2>1, <2>4, <3>1
  <2>5. CASE ~(VersionOf(c, f) >= before)
    <3>1. f.begin <= before /\ before \in d.snaps
      BY <1>1, <1>3, <1>4, <1>5, <2>1, <2>3, <2>5
    <3>2. VersionOf(d, f) = before
      BY <1>1, <1>3, <1>4, <2>2, <3>1
    <3> QED
      BY <1>1, <3>2
  <2> QED
    BY <2>4, <2>5
<1>9. ASSUME NEW v \in TableVersions(c, table), v >= before
      PROVE  v \in TableVersions(d, table)
  <2>1. PICK f \in c.files : f.table = table /\ v = VersionOf(c, f)
    BY <1>6
  <2>2. v \in c.snaps /\ f.begin <= v /\ v \in Nat
    BY <1>4, <2>1, VersionIsFirst
  <2>3. f.begin \in Changes(f) \ {0}
    BY DEF Changes, Sound, IsLake, IsFile
  <2>4. PICK g \in c.files : g.table = table /\ f.begin <= g.begin /\ Visible(g, v)
    BY <2>1, <2>2, <2>3 DEF Sound, Lineage, IsNamed
  <2>5. g \in d.files /\ v \in d.snaps /\ g.begin <= v
    BY <1>3, <1>9, <2>2, <2>4 DEF Visible
  <2>6. \A s \in c.snaps : f.begin <= s => v <= s
    BY <2>1, VersionIsFirst
  <2>7. /\ VersionOf(d, g) \in d.snaps /\ g.begin <= VersionOf(d, g)
        /\ VersionOf(d, g) <= v
    BY <1>2, <2>5, VersionIsFirst
  <2>8. VersionOf(d, g) \in c.snaps /\ f.begin <= VersionOf(d, g)
    BY <1>3, <1>4, <1>5, <2>4, <2>7
  <2>9. VersionOf(d, g) = v
    BY <1>4, <2>2, <2>6, <2>7, <2>8
  <2> QED
    BY <1>7, <2>4, <2>5, <2>9
<1>10. TableVersions(d, table) = {v \in TableVersions(c, table) : v >= before}
  BY <1>7, <1>8, <1>9
<1> QED
  BY <1>10 DEF d

\* What the keep newest versions are for: the last one is among them, of two the one before.
LEMMA MaxIs ==
  ASSUME NEW S \in SUBSET Nat, NEW m \in S, \A x \in S : x <= m
  PROVE  Max(S) = m
<1>1. \E y \in S : \A x \in S : y >= x
  OBVIOUS
<1>2. Max(S) \in S /\ \A x \in S : Max(S) >= x
  BY <1>1 DEF Max
<1>3. Max(S) \in Nat /\ m \in Nat /\ Max(S) >= m /\ Max(S) <= m
  BY <1>2
<1> QED
  BY <1>3

LEMMA OneBeforeIs ==
  ASSUME NEW S \in SUBSET Nat, IsFiniteSet(S), S # {}, S # {Max(S)}
  PROVE  /\ OneBefore(S) \in S /\ OneBefore(S) < Max(S)
         /\ \A x \in S : x <= OneBefore(S) \/ x = Max(S)
<1>1. Max(S) \in S /\ \A x \in S : x <= Max(S)
  BY FiniteHasMax
<1> DEFINE rest == S \ {Max(S)}
<1>2. rest \in SUBSET Nat /\ rest # {} /\ IsFiniteSet(rest)
  BY <1>1, FS_Subset
<1>3. Max(rest) \in rest /\ \A x \in rest : x <= Max(rest)
  <2> HIDE DEF rest
  <2> QED
    BY <1>2, FiniteHasMax
<1>4. OneBefore(S) = Max(rest)
  BY DEF OneBefore
<1>5. Max(rest) \in S /\ Max(rest) # Max(S) /\ \A x \in S : x <= Max(rest) \/ x = Max(S)
  BY <1>3
<1>6. Max(rest) < Max(S)
  <2>1. Max(rest) \in Nat /\ Max(S) \in Nat /\ Max(rest) <= Max(S)
    BY <1>1, <1>5
  <2> QED
    BY <1>5, <2>1
<1> QED
  BY <1>4, <1>5, <1>6

LEMMA NewestHolds ==
  ASSUME NEW S \in SUBSET Nat, IsFiniteSet(S), S # {}, NEW keep \in Nat \ {0}
  PROVE  /\ Max(S) \in Newest(S, keep) /\ Newest(S, keep) \subseteq S
         /\ keep # 1 /\ S # {Max(S)} => OneBefore(S) \in Newest(S, keep)
<1>1. Max(S) \in S /\ \A x \in S : x <= Max(S)
  BY FiniteHasMax
<1>2. {w \in S : w > Max(S)} = {}
  <2>1. ASSUME NEW w \in S
        PROVE  ~(w > Max(S))
    <3>1. w \in Nat /\ Max(S) \in Nat /\ w <= Max(S)
      BY <1>1
    <3> QED
      BY <3>1
  <2> QED
    BY <2>1
<1>3. Cardinality({w \in S : w > Max(S)}) = 0
  BY <1>2, FS_EmptySet
<1>4. ASSUME keep # 1, S # {Max(S)}
      PROVE  OneBefore(S) \in Newest(S, keep)
  <2>1. /\ OneBefore(S) \in S /\ OneBefore(S) < Max(S)
        /\ \A x \in S : x <= OneBefore(S) \/ x = Max(S)
    BY <1>4, OneBeforeIs
  <2>2. {w \in S : w > OneBefore(S)} = {Max(S)}
    <3>1. ASSUME NEW w \in S, w > OneBefore(S)
          PROVE  w = Max(S)
      <4>1. w \in Nat /\ OneBefore(S) \in Nat /\ (w <= OneBefore(S) \/ w = Max(S))
        BY <2>1
      <4> QED
        BY <3>1, <4>1
    <3>2. Max(S) > OneBefore(S)
      BY <1>1, <2>1
    <3> QED
      BY <1>1, <3>1, <3>2
  <2>3. Cardinality({w \in S : w > OneBefore(S)}) = 1
    BY <2>2, FS_Singleton
  <2> QED
    BY <1>4, <2>1, <2>3 DEF Newest
<1> QED
  BY <1>1, <1>3, <1>4 DEF Newest

\* An expiry, if it expires anything, does so up to a weather load that is not the last
\* (or, keeping two, not one of the last two).
LEMMA ExpiresUpToALoad ==
  ASSUME NEW c, Sound(c), NEW keep \in Nat \ {0}
  PROVE  LET v == TableVersions(c, Weathers)
         IN \/ ExpiredTo(c, keep) = c
            \/ \E before \in v :
                 /\ ExpiredTo(c, keep) = Expired(c, before)
                 /\ before <= Max(v)
                 /\ keep # 1 /\ v # {Max(v)} => before <= OneBefore(v)
<1> DEFINE v == TableVersions(c, Weathers)
<1> DEFINE newest == Newest(v, keep)
<1>1. v \in SUBSET Nat /\ IsFiniteSet(v)
  BY VersionsAreSnaps
<1>2. CASE ~(Cardinality(v) >= keep)
  BY <1>2 DEF ExpiredTo, Weathers
<1>3. CASE Cardinality(v) >= keep
  <2>1. v # {}
    BY <1>3, FS_EmptySet
  <2>2. ExpiredTo(c, keep) = Expired(c, Min(newest))
    BY <1>3 DEF ExpiredTo, Weathers
  <2> HIDE DEF v
  <2>3. /\ Max(v) \in newest /\ newest \subseteq v
        /\ keep # 1 /\ v # {Max(v)} => OneBefore(v) \in newest
    BY <1>1, <2>1, NewestHolds
  <2> HIDE DEF newest
  <2>4. newest \in SUBSET Nat /\ newest # {}
    BY <1>1, <2>3
  <2>5. Min(newest) \in newest /\ \A x \in newest : Min(newest) <= x
    BY <2>4, NatHasMin
  <2>6. Min(newest) \in v /\ Min(newest) <= Max(v)
        /\ (keep # 1 /\ v # {Max(v)} => Min(newest) <= OneBefore(v))
    BY <2>3, <2>5
  <2> QED
    BY <2>2, <2>6 DEF v
<1> QED
  BY <1>2, <1>3

LEMMA ExpiredToIsSound ==
  ASSUME NEW c, Sound(c), c.is = "lake", NEW keep \in Nat \ {0}
  PROVE  LET d == ExpiredTo(c, keep)
         IN /\ Sound(d) /\ d.is = "lake" /\ d.path = c.path /\ d.files \subseteq c.files
            /\ Recorded(d) \subseteq Recorded(c)
<1> DEFINE d == ExpiredTo(c, keep)
<1>1. CASE d = c
  BY <1>1
<1>2. CASE d # c
  <2>1. PICK before \in TableVersions(c, Weathers) : d = Expired(c, before)
    BY <1>2, ExpiresUpToALoad
  <2>2. before \in c.snaps
    BY VersionsAreSnaps
  <2>3. Sound(Expired(c, before))
    BY <2>2, ExpiredIsSound
  <2> HIDE DEF d
  <2>4. /\ d.is = "lake" /\ d.path = c.path /\ d.files \subseteq c.files
        /\ \A x \in d.scheduled : x \in c.scheduled \/ (x # 0 /\ \E f \in c.files : x = f.name)
    BY <2>1, ExpiredIs DEF Sound
  <2>5. Recorded(d) \subseteq Recorded(c)
    BY <2>4 DEF Recorded
  <2> QED
    BY <2>1, <2>3, <2>4, <2>5 DEF d
<1> QED
  BY <1>1, <1>2

LEMMA ClearedIsSound ==
  ASSUME NEW c, Sound(c)
  PROVE  LET d == [c EXCEPT !.scheduled = {}]
         IN /\ Sound(d) /\ d.is = c.is /\ d.path = c.path /\ d.files = c.files
            /\ d.snaps = c.snaps /\ d.scheduled = {} /\ Recorded(d) \subseteq Recorded(c)
<1> DEFINE d == [c EXCEPT !.scheduled = {}]
<1>1. d = [is |-> c.is, path |-> c.path, next |-> c.next, snaps |-> c.snaps,
           files |-> c.files, scheduled |-> {}]
  BY FieldsChange DEF Sound, IsLake, IsRecord
<1> HIDE DEF d
<1>2. IsLake(d)
  BY <1>1, FS_EmptySet DEF Sound, IsLake
<1>3. Lineage(d)
  BY <1>1 DEF Sound, Lineage, IsNamed
<1>4. NamesApart(d)
  BY <1>1 DEF Sound, NamesApart
<1> QED
  BY <1>1, <1>2, <1>3, <1>4 DEF d, Sound, Recorded

LEMMA RelinkedIsSound ==
  ASSUME NEW c, Sound(c), NEW path
  PROVE  LET d == [c EXCEPT !.path = path]
         IN /\ Sound(d) /\ d.is = c.is /\ d.path = path /\ d.files = c.files
            /\ Recorded(d) = Recorded(c)
<1> DEFINE d == [c EXCEPT !.path = path]
<1>1. d = [is |-> c.is, path |-> path, next |-> c.next, snaps |-> c.snaps,
           files |-> c.files, scheduled |-> c.scheduled]
  BY FieldsChange DEF Sound, IsLake, IsRecord
<1> HIDE DEF d
<1>2. IsLake(d)
  BY <1>1 DEF Sound, IsLake
<1>3. Lineage(d)
  BY <1>1 DEF Sound, Lineage, IsNamed
<1>4. NamesApart(d)
  BY <1>1 DEF Sound, NamesApart
<1> QED
  BY <1>1, <1>2, <1>3, <1>4 DEF d, Sound, Recorded

------------------------------------------------------------------------------
(* Where the environments lie. *)

DataPaths == {<<"work">>, <<"tmp">>, <<"copy">>, <<"release">>, <<"s3">>, <<"s3", "test-pipeline">>}

Copies == <<"file", "copy">>
Released == <<"file", "release">>

\* No two data paths are one, though one may lie below another.
LEMMA PathsDiffer ==
  /\ <<"s3">> # <<"s3", "test-pipeline">> /\ <<"work">> # <<"s3", "test-pipeline">>
  /\ <<"tmp">> # <<"s3", "test-pipeline">> /\ <<"copy">> # <<"s3", "test-pipeline">>
  /\ <<"release">> # <<"s3", "test-pipeline">>
  /\ <<"work">> # <<"tmp">> /\ <<"work">> # <<"copy">>
  /\ <<"work">> # <<"release">> /\ <<"work">> # <<"s3">>
  /\ <<"tmp">> # <<"copy">> /\ <<"tmp">> # <<"release">> /\ <<"tmp">> # <<"s3">>
  /\ <<"copy">> # <<"release">> /\ <<"copy">> # <<"s3">> /\ <<"release">> # <<"s3">>
OBVIOUS

LEMMA FirstOf ==
  ASSUME NEW s
  PROVE  SubSeq(s, 1, 1) = <<s[1]>>
<1> DEFINE S == {s[1]}
<1> DEFINE t == SubSeq(s, 1, 1)
<1>1. \A i \in 1 .. 1 : s[i] \in S
  OBVIOUS
<1>2. t \in Seq(S) /\ Len(t) = 1 /\ t[1] = s[1]
  BY <1>1, SubSeqProperties
<1> HIDE DEF t
<1>3. t = <<t[1]>>
  BY <1>2
<1> QED
  BY <1>2, <1>3 DEF t

LEMMA PrefixOfOne ==
  ASSUME NEW s, NEW x, Len(s) \in Nat \ {0}
  PROVE  IsPrefix(<<x>>, s) <=> s[1] = x
<1> DEFINE p == <<x>>
<1>1. Len(p) = 1 /\ p[1] = x
  OBVIOUS
<1>2. SubSeq(p, 1, 1) = p
  BY <1>1, FirstOf
<1>3. SubSeq(s, 1, 1) = p <=> s[1] = x
  <2>1. SubSeq(s, 1, 1) = <<s[1]>>
    BY FirstOf
  <2> QED
    BY <2>1
<1> HIDE DEF p
<1>4. IsPrefix(p, s) <=> SubSeq(s, 1, 1) = p
  BY <1>1, <1>2 DEF IsPrefix
<1> QED
  BY <1>3, <1>4 DEF p

\* On disk nothing lies below another data path.
LEMMA NothingBelow ==
  ASSUME NEW dir \in {"work", "tmp", "copy"}, NEW path \in DataPaths
  PROVE  IsPrefix(<<dir>>, path) <=> path = <<dir>>
<1>1. Len(path) \in Nat \ {0} /\ (path[1] = dir <=> path = <<dir>>)
  BY DEF DataPaths
<1> QED
  BY <1>1, PrefixOfOne

LEMMA FixtureIs ==
  ASSUME NEW e \in Setups
  PROVE  LET d == FixtureEnv(e)
         IN /\ d.dir = "tmp" /\ d.prefix = <<"s3", "test-pipeline">>
            /\ d.catalog = e.catalog /\ d.data = e.data /\ d.endpoint = e.endpoint
            /\ e.catalog = "postgres" => d.schema = "test_pipeline_tmp"
            /\ d.beside = e.beside
BY LakeAssumption DEF FixtureEnv, IsRemoteCatalog

LEMMA Layout ==
  ASSUME env \in Setups
  PROVE  LET e == FixtureEnv(env)
         IN /\ IsRemoteCatalog(e) = IsRemoteCatalog(env) /\ OnDisk(e) = OnDisk(env)
            /\ Usable(e) = Usable(env)
            /\ IsRemoteCatalog(env) => /\ Catalog(env) = <<"postgres", "lakehouse">>
                                       /\ Catalog(e) = <<"postgres", "test_pipeline_tmp">>
            /\ ~IsRemoteCatalog(env) => /\ Catalog(env) = <<"file", "work">>
                                        /\ Catalog(e) = <<"file", "tmp">>
            /\ OnDisk(env) => DataPath(env) = <<"work">> /\ DataPath(e) = <<"tmp">>
            /\ ~OnDisk(env) => /\ DataPath(env) = <<"s3">>
                               /\ DataPath(e) = <<"s3", "test-pipeline">>
BY FixtureIs, LakeAssumption
   DEF IsRemoteCatalog, Catalog, MetadataSchema, DataPath, OnDisk, Usable

LEMMA CopyLayout ==
  /\ ~IsRemoteCatalog(CopyEnv) /\ OnDisk(CopyEnv) /\ Usable(CopyEnv) /\ ~Remote(CopyEnv)
  /\ Catalog(CopyEnv) = Copies /\ DataPath(CopyEnv) = <<"copy">>
BY DEF CopyEnv, IsRemoteCatalog, OnDisk, Usable, Remote, Catalog, DataPath, Copies

LEMMA PlacesAre ==
  /\ Places = {<<"file", "work">>, <<"file", "tmp">>, Copies, Released,
               <<"postgres", "lakehouse">>, <<"postgres", "test_pipeline_tmp">>}
  /\ Copies # Released /\ Copies[2] = "copy"
  /\ \A p \in Places : p[2] = "copy" <=> p = Copies
BY DEF Places, Copies, Released

LEMMA CatalogsAreApart ==
  ASSUME env \in Setups
  PROVE  LET e == FixtureEnv(env)
         IN /\ Catalog(env) \in Places /\ Catalog(e) \in Places
            /\ Catalog(env) # Catalog(e)
            /\ Catalog(env) # Copies /\ Catalog(e) # Copies
            /\ Catalog(env) # Released /\ Catalog(e) # Released
            /\ DataPath(env) # DataPath(e) /\ DataPath(env) \in DataPaths
            /\ DataPath(e) \in DataPaths
            /\ DataPath(env) # <<"copy">> /\ DataPath(env) # <<"release">>
            /\ DataPath(e) # <<"copy">> /\ DataPath(e) # <<"release">>
            /\ DataPath(e) # <<"work">> /\ <<"copy">> # <<"release">>
BY Layout, PlacesAre, PathsDiffer DEF Copies, Released, DataPaths

------------------------------------------------------------------------------
(* The loads whose rows are still held. *)

Shown(c, s) == {[day |-> r.day, value |-> r.value] : r \in Rows(c, Weathers, s)}

Held == SUBSET [day : Days, value : Values]

\* The last versions of the weather read as it was after the last loads.
IsHeld(c, h) ==
    LET v == TableVersions(c, Weathers)
    IN /\ h \in Seq(Held) /\ Len(h) <= 2
       /\ \A f \in c.files : f.table = Weathers => f.rows \subseteq Days \X Values
       /\ h # <<>> => v # {} /\ Shown(c, Max(v)) = h[Len(h)] /\ h[Len(h)] # {}
       /\ Len(h) = 2 => v # {Max(v)} /\ Shown(c, OneBefore(v)) = h[1]

LEMMA UpToTwo ==
  ASSUME NEW n \in Nat, n <= 2
  PROVE  n = 0 \/ n = 1 \/ n = 2
OBVIOUS

LEMMA HeldAreFew ==
  ASSUME NEW c, NEW h, IsHeld(c, h)
  PROVE  /\ h \in Seq(Held) /\ Len(h) \in Nat
         /\ (h = <<>> <=> Len(h) = 0) /\ (Len(h) = 0 \/ Len(h) = 1 \/ Len(h) = 2)
         /\ Len(h) # 0 => h[Len(h)] \in Held
<1>1. h \in Seq(Held) /\ Len(h) <= 2
  BY DEF IsHeld
<1>2. Len(h) \in Nat /\ (h = <<>> <=> Len(h) = 0)
  BY <1>1, EmptySeq, LenProperties
<1>3. Len(h) = 0 \/ Len(h) = 1 \/ Len(h) = 2
  BY <1>1, <1>2, UpToTwo
<1>4. Len(h) # 0 => h[Len(h)] \in Held
  <2>1. Len(h) # 0 => Len(h) \in 1 .. Len(h)
    BY <1>2
  <2> QED
    BY <1>1, <2>1, ElementOfSeq
<1> QED
  BY <1>1, <1>2, <1>3, <1>4

LEMMA ShownIsTyped ==
  ASSUME NEW c, NEW s, \A f \in c.files : f.table = Weathers => f.rows \subseteq Days \X Values
  PROVE  Shown(c, s) \in Held
<1>1. ASSUME NEW x \in Rows(c, Weathers, s)
      PROVE  x.day \in Days /\ x.value \in Values
  <2>1. PICK f \in c.files :
          /\ f.table = Weathers
          /\ \E r \in f.rows : x = [day |-> r[1], value |-> r[2], load |-> f.begin]
    BY RowsAre
  <2>2. PICK r \in f.rows : x = [day |-> r[1], value |-> r[2], load |-> f.begin]
    BY <2>1
  <2>3. r \in Days \X Values
    BY <2>1
  <2> QED
    BY <2>2, <2>3
<1> QED
  BY <1>1 DEF Shown, Held

\* A table's versions lie before the next snapshot.
LEMMA VersionsArePast ==
  ASSUME NEW c, Sound(c), NEW table
  PROVE  \A v \in TableVersions(c, table) : v \in Nat /\ v < c.next
BY VersionsAreSnaps, SnapsAreTyped DEF Sound

\* The last but one is the last but one of any part that has the last two.
LEMMA OneBeforeOfPart ==
  ASSUME NEW S \in SUBSET Nat, IsFiniteSet(S), S # {}, NEW T \in SUBSET S, Max(S) \in T
  PROVE  /\ Max(T) = Max(S)
         /\ S # {Max(S)} /\ OneBefore(S) \in T => T # {Max(T)} /\ OneBefore(T) = OneBefore(S)
<1>1. Max(S) \in S /\ \A x \in S : x <= Max(S)
  BY FiniteHasMax
<1>2. Max(T) = Max(S)
  BY <1>1, MaxIs
<1>3. ASSUME S # {Max(S)}, OneBefore(S) \in T
      PROVE  T # {Max(T)} /\ OneBefore(T) = OneBefore(S)
  <2>1. /\ OneBefore(S) \in S /\ OneBefore(S) < Max(S)
        /\ \A x \in S : x <= OneBefore(S) \/ x = Max(S)
    BY <1>3, OneBeforeIs
  <2>2. OneBefore(S) # Max(S)
    <3>1. OneBefore(S) \in Nat /\ Max(S) \in Nat
      BY <1>1, <2>1
    <3> QED
      BY <2>1, <3>1
  <2> DEFINE rest == T \ {Max(T)}
  <2>3. rest \in SUBSET Nat /\ OneBefore(S) \in rest /\ \A x \in rest : x <= OneBefore(S)
    BY <1>2, <1>3, <2>1, <2>2
  <2>4. Max(rest) = OneBefore(S)
    <3> HIDE DEF rest
    <3> QED
      BY <2>3, MaxIs
  <2> QED
    BY <2>3, <2>4 DEF OneBefore
<1> QED
  BY <1>2, <1>3

\* A version more is the last one, and the last one was the one before.
LEMMA OneMore ==
  ASSUME NEW S \in SUBSET Nat, NEW n \in Nat, \A x \in S : x < n
  PROVE  /\ Max(S \cup {n}) = n
         /\ S # {} => S \cup {n} # {n} /\ OneBefore(S \cup {n}) = Max(S)
<1> DEFINE T == S \cup {n}
<1>1. T \in SUBSET Nat /\ n \in T /\ \A x \in T : x <= n
  OBVIOUS
<1> HIDE DEF T
<1>2. Max(T) = n
  BY <1>1, MaxIs
<1>3. T \ {n} = S
  BY DEF T
<1> QED
  BY <1>2, <1>3 DEF T, OneBefore

LEMMA MergeIsHeld ==
  ASSUME NEW c, Sound(c), c.is = "lake", NEW h, IsHeld(c, h), NEW name \in Nat,
         name # 0 => name \notin Recorded(c), NEW rows \in SUBSET (Days \X Values), rows # {}
  PROVE  LET d == MergedInto(c, name, rows)
             now == {[day |-> r.day, value |-> r.value] : r \in Weather(d)}
         IN IsHeld(d, Append(IF Len(h) = 2 THEN Tail(h) ELSE h, now))
<1> DEFINE d == MergedInto(c, name, rows)
<1> DEFINE now == {[day |-> r.day, value |-> r.value] : r \in Weather(d)}
<1> DEFINE v == TableVersions(c, Weathers)
<1> DEFINE w == TableVersions(d, Weathers)
<1> DEFINE new == File(c, Weathers, name, rows)
<1> DEFINE g == IF Len(h) = 2 THEN Tail(h) ELSE h
<1>1. Commits(c, d, new, Merging(c, rows))
  BY MergeCommits DEF Sound
<1>2. new.table = Weathers /\ new.rows = rows /\ new.begin = c.next /\ new.end = 0 /\ new.gone = {}
  <2> HIDE DEF d, now, v, w, g
  <2>1. IsLake(c)
    BY DEF Sound
  <2> QED
    BY <2>1, NewFileIs
<1>3. Sound(d) /\ w = v \cup {c.next}
  <2> HIDE DEF d, new
  <2> QED
    BY <1>1, <1>2, CommitIsSound, CommitAddsAVersion
<1>4. /\ d.snaps = c.snaps \cup {c.next} /\ new \in d.files
      /\ \A f \in d.files : f = new \/ \E x \in c.files : Follows(x, f, c.next)
  <2> HIDE DEF d, new
  <2> QED
    BY <1>1 DEF Commits
<1> HIDE DEF d, new
<1>5. v \in SUBSET Nat /\ IsFiniteSet(v) /\ (\A x \in v : x < c.next) /\ c.next \in Nat
  BY VersionsAreSnaps, VersionsArePast DEF Sound, IsLake
<1>6. \A f \in d.files : f.table = Weathers => f.rows \subseteq Days \X Values
  BY <1>2, <1>4 DEF IsHeld, Follows
<1>7. Latest(d) = c.next
  <2>1. \A s \in c.snaps : s \in Nat /\ s < c.next
    BY SnapsAreTyped DEF Sound
  <2>2. d.snaps \in SUBSET Nat /\ c.next \in d.snaps /\ \A s \in d.snaps : s <= c.next
    BY <1>4, <1>5, <2>1
  <2> QED
    BY <2>2, MaxIs DEF Latest
<1>8. now = Shown(d, c.next) /\ now \in Held
  <2>1. now = Shown(d, c.next)
    BY <1>7 DEF Shown, Weather, Weathers
  <2> HIDE DEF now
  <2> QED
    BY <1>6, <2>1, ShownIsTyped
<1>9. now # {}
  <2>1. PICK r \in rows : TRUE
    OBVIOUS
  <2>2. Visible(new, c.next)
    BY <1>2, <1>5 DEF Visible
  <2>3. [day |-> r[1], value |-> r[2], load |-> new.begin] \in Rows(d, Weathers, c.next)
    BY <1>2, <1>4, <2>1, <2>2, RowsAre
  <2> QED
    BY <1>8, <2>3 DEF Shown
<1> HIDE DEF now
<1> HIDE DEF v, w
<1>10. /\ Max(w) = c.next /\ w # {}
       /\ v # {} => w # {Max(w)} /\ OneBefore(w) = Max(v)
  <2>1. /\ Max(v \cup {c.next}) = c.next
        /\ v # {} => v \cup {c.next} # {c.next} /\ OneBefore(v \cup {c.next}) = Max(v)
    BY <1>5, OneMore
  <2> QED
    BY <1>3, <2>1
<1>11. /\ h \in Seq(Held) /\ Len(h) \in Nat
       /\ (h = <<>> <=> Len(h) = 0) /\ (Len(h) = 0 \/ Len(h) = 1 \/ Len(h) = 2)
  BY HeldAreFew
<1>12. /\ g \in Seq(Held) /\ Len(g) <= 1 /\ Len(g) \in Nat /\ (h = <<>> <=> g = <<>>)
       /\ h # <<>> => g[1] = h[Len(h)] /\ Len(g) = 1
  <2>1. CASE Len(h) = 2
    <3>1. h # <<>>
      BY <1>11, <2>1
    <3> DEFINE t == Tail(h)
    <3>2. t \in Seq(Held) /\ Len(t) = Len(h) - 1 /\ \A i \in 1 .. Len(t) : t[i] = h[i + 1]
      BY <1>11, <3>1, HeadTailProperties
    <3> HIDE DEF t
    <3>3. Len(t) = 1
      BY <2>1, <3>2
    <3>5. t[1] = h[2]
      <4>1. 1 \in 1 .. Len(t)
        BY <3>3
      <4>2. t[1] = h[1 + 1]
        BY <3>2, <4>1
      <4> QED
        BY <4>2
    <3>6. t # <<>>
      BY <3>3
    <3>4. g = t
      BY <2>1 DEF t
    <3> HIDE DEF g
    <3> QED
      BY <2>1, <3>1, <3>2, <3>3, <3>4, <3>5, <3>6
  <2>2. CASE Len(h) # 2
    <3>1. g = h
      BY <2>2
    <3> HIDE DEF g
    <3> QED
      BY <1>11, <2>2, <3>1
  <2> QED
    BY <2>1, <2>2
<1> HIDE DEF g
<1>13. /\ Append(g, now) \in Seq(Held) /\ Len(Append(g, now)) = Len(g) + 1
       /\ Append(g, now)[Len(g) + 1] = now
       /\ \A i \in 1 .. Len(g) : Append(g, now)[i] = g[i]
  BY <1>8, <1>12, AppendProperties
<1> DEFINE k == Append(g, now)
<1> HIDE DEF k
<1>14. k \in Seq(Held) /\ Len(k) <= 2 /\ k[Len(k)] = now
  BY <1>12, <1>13 DEF k
<1>15. ASSUME Len(k) = 2
       PROVE  w # {Max(w)} /\ Shown(d, OneBefore(w)) = k[1]
  <2>1. Len(g) = 1 /\ k[1] = g[1]
    BY <1>12, <1>13, <1>15 DEF k
  <2>2. h # <<>> /\ k[1] = h[Len(h)]
    <3>1. g # <<>>
      BY <2>1
    <3> QED
      BY <1>12, <2>1, <3>1
  <2>3. v # {} /\ Shown(c, Max(v)) = h[Len(h)]
    BY <2>2 DEF IsHeld, v
  <2>4. Max(v) \in Nat /\ Max(v) < c.next
    BY <1>5, <2>3, FiniteHasMax
  <2>5. Rows(d, Weathers, Max(v)) = Rows(c, Weathers, Max(v))
    BY <1>1, <2>4, CommitKeepsRows
  <2> QED
    BY <1>10, <2>2, <2>3, <2>5 DEF Shown
<1>16. IsHeld(d, k)
  BY <1>6, <1>8, <1>9, <1>10, <1>14, <1>15 DEF IsHeld, w
<1> QED
  BY <1>16 DEF k, g, now, d

LEMMA ReplaceIsHeld ==
  ASSUME NEW c, Sound(c), c.is = "lake", NEW h, IsHeld(c, h), NEW table, table # Weathers,
         NEW name \in Nat, name # 0 => name \notin Recorded(c)
  PROVE  IsHeld(Replaced(c, table, name), h)
<1> DEFINE d == Replaced(c, table, name)
<1> DEFINE v == TableVersions(c, Weathers)
<1> DEFINE new == File(c, table, name, {<<0, 0>>})
<1>1. Commits(c, d, new, Replacing(c, table))
  BY ReplaceCommits DEF Sound
<1>2. new.table = table
  BY NewFileIs DEF Sound
<1> HIDE DEF d, new
<1>3. TableVersions(d, Weathers) = v
  BY <1>1, <1>2, CommitAddsAVersion
<1>4. \A f \in d.files : f.table = Weathers => f.rows \subseteq Days \X Values
  <2>1. \A f \in d.files : f = new \/ \E x \in c.files : Follows(x, f, c.next)
    BY <1>1 DEF Commits
  <2> QED
    BY <1>2, <2>1 DEF IsHeld, Follows
<1>5. v \in SUBSET Nat /\ IsFiniteSet(v) /\ \A x \in v : x < c.next
  BY VersionsAreSnaps, VersionsArePast
<1>6. \A x \in v : Shown(d, x) = Shown(c, x)
  BY <1>1, <1>5, CommitKeepsRows DEF Shown
<1>7. v # {} => Max(v) \in v
  BY <1>5, FiniteHasMax
<1>8. v # {} /\ v # {Max(v)} => OneBefore(v) \in v
  BY <1>5, OneBeforeIs
<1> HIDE DEF v
<1>9. h \in Seq(Held) /\ (Len(h) = 2 => h # <<>>)
  BY DEF IsHeld
<1>10. IsHeld(d, h)
  BY <1>3, <1>4, <1>6, <1>7, <1>8, <1>9 DEF IsHeld, v
<1> QED
  BY <1>10 DEF d

\* An expiry that keeps one load leaves one held, and one that keeps two leaves both.
LEMMA ExpiryIsHeld ==
  ASSUME NEW c, Sound(c), c.is = "lake", NEW h, IsHeld(c, h), NEW keep \in Nat \ {0}
  PROVE  IsHeld(ExpiredTo(c, keep), IF Len(h) > keep THEN <<Last(h)>> ELSE h)
<1> DEFINE d == ExpiredTo(c, keep)
<1> DEFINE k == IF Len(h) > keep THEN <<Last(h)>> ELSE h
<1> DEFINE v == TableVersions(c, Weathers)
<1> DEFINE w == TableVersions(d, Weathers)
<1>1. /\ h \in Seq(Held) /\ Len(h) \in Nat
      /\ (h = <<>> <=> Len(h) = 0) /\ (Len(h) = 0 \/ Len(h) = 1 \/ Len(h) = 2)
      /\ Len(h) # 0 => h[Len(h)] \in Held
  BY HeldAreFew
<1>2. /\ k \in Seq(Held) /\ Len(k) \in Nat /\ Len(k) <= 2 /\ (k # <<>> => h # <<>>)
      /\ k # <<>> => k[Len(k)] = h[Len(h)]
      /\ Len(k) = 2 => k = h /\ Len(h) = 2 /\ keep # 1
  <2>1. CASE Len(h) > keep
    <3>1. Len(h) = 2 /\ h # <<>>
      BY <1>1, <2>1
    <3>2. k = <<h[2]>> /\ h[2] \in Held
      BY <1>1, <2>1, <3>1 DEF Last
    <3> HIDE DEF k
    <3> QED
      BY <3>1, <3>2
  <2>2. CASE ~(Len(h) > keep)
    <3>1. k = h
      BY <2>2
    <3>2. Len(h) = 2 => keep # 1
      BY <2>2
    <3>3. Len(h) <= 2
      BY <1>1
    <3> HIDE DEF k
    <3> QED
      BY <1>1, <3>1, <3>2, <3>3
  <2> QED
    BY <2>1, <2>2
<1> HIDE DEF k
<1>3. Sound(d) /\ d.files \subseteq c.files
  BY ExpiredToIsSound
<1>4. v \in SUBSET Nat /\ IsFiniteSet(v)
  BY VersionsAreSnaps
<1>5. \/ d = c
      \/ \E before \in v : /\ d = Expired(c, before) /\ before <= Max(v)
                           /\ keep # 1 /\ v # {Max(v)} => before <= OneBefore(v)
  BY ExpiresUpToALoad
<1> HIDE DEF d
<1>6. \A f \in d.files : f.table = Weathers => f.rows \subseteq Days \X Values
  BY <1>3 DEF IsHeld
<1>7. /\ w \subseteq v /\ \A x \in w : Shown(d, x) = Shown(c, x)
      /\ v # {} => Max(v) \in w
      /\ v # {} /\ v # {Max(v)} /\ keep # 1 => OneBefore(v) \in w
  <2>1. CASE d = c
    <3>1. v # {} => Max(v) \in v
      BY <1>4, FiniteHasMax
    <3>2. v # {} /\ v # {Max(v)} => OneBefore(v) \in v
      BY <1>4, OneBeforeIs
    <3> QED
      BY <2>1, <3>1, <3>2
  <2>2. CASE d # c
    <3>1. PICK before \in v : /\ d = Expired(c, before) /\ before <= Max(v)
                              /\ keep # 1 /\ v # {Max(v)} => before <= OneBefore(v)
      BY <1>5, <2>2
    <3>2. w = {x \in v : x >= before}
      BY <3>1, ExpiredKeepsVersions
    <3>3. \A x \in w : x \in c.snaps /\ x >= before
      BY <3>2, VersionsAreSnaps
    <3>4. \A x \in w : Shown(d, x) = Shown(c, x)
      BY <3>1, <3>3, ExpiredKeepsRows DEF Shown, Sound
    <3>5. before \in Nat /\ Max(v) \in v /\ Max(v) >= before
      BY <1>4, <3>1, FiniteHasMax
    <3>6. v # {Max(v)} /\ keep # 1 => OneBefore(v) \in v /\ OneBefore(v) >= before
      BY <1>4, <3>1, <3>5, OneBeforeIs
    <3> HIDE DEF v, w
    <3> QED
      BY <3>2, <3>4, <3>5, <3>6
  <2> QED
    BY <2>1, <2>2
<1> HIDE DEF v, w
<1>8. v # {} => Max(w) = Max(v) /\ w # {}
  BY <1>4, <1>7, OneBeforeOfPart
<1>9. v # {} /\ v # {Max(v)} /\ keep # 1 => w # {Max(w)} /\ OneBefore(w) = OneBefore(v)
                                             /\ OneBefore(v) \in w
  BY <1>4, <1>7, OneBeforeOfPart
<1>10. k # <<>> => w # {} /\ Shown(d, Max(w)) = k[Len(k)] /\ k[Len(k)] # {}
  <2>1. h # <<>> => v # {} /\ Shown(c, Max(v)) = h[Len(h)] /\ h[Len(h)] # {}
    BY DEF IsHeld, v
  <2> QED
    BY <1>2, <1>7, <1>8, <2>1
<1>11. Len(k) = 2 => w # {Max(w)} /\ Shown(d, OneBefore(w)) = k[1]
  <2>1. Len(h) = 2 => v # {} /\ v # {Max(v)} /\ Shown(c, OneBefore(v)) = h[1]
    BY <1>1 DEF IsHeld, v
  <2>2. Len(k) = 2 => keep # 1
    BY <1>2
  <2> QED
    BY <1>2, <1>7, <1>9, <2>1, <2>2
<1>12. IsHeld(d, k)
  BY <1>1, <1>2, <1>6, <1>10, <1>11 DEF IsHeld, w
<1> QED
  BY <1>12 DEF d, k

\* While a load is held the weather is not empty, and its days are days.
LEMMA HeldIsShown ==
  ASSUME NEW c, Sound(c), NEW h, IsHeld(c, h), h # <<>>
  PROVE  LET newest == {r.day : r \in Weather(c)}
         IN newest # {} /\ Max(newest) # 0
<1> DEFINE v == TableVersions(c, Weathers)
<1> DEFINE newest == {r.day : r \in Weather(c)}
<1>1. v # {} /\ Shown(c, Max(v)) # {}
  BY DEF IsHeld
<1>2. v \in SUBSET Nat /\ IsFiniteSet(v) /\ v \subseteq c.snaps
  BY VersionsAreSnaps
<1>3. Max(v) \in v /\ \A x \in v : x <= Max(v)
  BY <1>1, <1>2, FiniteHasMax
<1>4. Latest(c) \in c.snaps /\ \A s \in c.snaps : s <= Latest(c)
  <2>1. c.snaps \in SUBSET Nat /\ IsFiniteSet(c.snaps) /\ c.snaps # {}
    BY <1>2, <1>3, SnapsAreTyped DEF Sound
  <2>2. Max(c.snaps) \in c.snaps /\ \A s \in c.snaps : s <= Max(c.snaps)
    BY <2>1, FiniteHasMax
  <2> QED
    BY <2>1, <2>2 DEF Latest
<1>5. Rows(c, Weathers, Latest(c)) = Rows(c, Weathers, Max(v))
  <2>1. Max(v) \in Nat /\ Max(v) <= Latest(c) /\ \A x \in v : x <= Latest(c) => x <= Max(v)
    BY <1>2, <1>3, <1>4
  <2> QED
    BY <1>4, <2>1, RowsStayBetween
<1>6. newest # {}
  <2>1. Rows(c, Weathers, Max(v)) # {}
    BY <1>1 DEF Shown
  <2> QED
    BY <1>5, <2>1 DEF Weather, Weathers
<1>7. newest \subseteq Days
  <2>1. Shown(c, Latest(c)) \in Held
    BY ShownIsTyped DEF IsHeld
  <2>2. \A r \in Weather(c) : [day |-> r.day, value |-> r.value] \in Shown(c, Latest(c))
    BY DEF Shown, Weather, Weathers
  <2> QED
    BY <2>1, <2>2 DEF Held
<1>8. newest \in SUBSET Nat /\ IsFiniteSet(newest) /\ 0 \notin newest
  BY <1>7, LakeAssumption, FS_Subset
<1> HIDE DEF newest
<1>9. Max(newest) \in newest
  BY <1>6, <1>8, FiniteHasMax
<1> QED
  BY <1>6, <1>8, <1>9 DEF newest

------------------------------------------------------------------------------
(* The invariant of the whole. *)

HomeOf(p, path) == IF p = Copies THEN <<"copy">> ELSE path

Home(p) == HomeOf(p, lake[p].path)

\* Which places there are, each with its own data path; a copy names the one it was
\* copied from until it is relinked.
LivesAt(p, path) ==
    \/ p = Catalog(env) /\ path = DataPath(env)
    \/ p = Catalog(FixtureEnv(env)) /\ path = DataPath(FixtureEnv(env))
    \/ p = Copies /\ path \in {<<"work">>, <<"copy">>}
    \/ p = Released /\ path = <<"release">>

PlacesInv ==
    /\ env \in Setups /\ reachable \in BOOLEAN /\ expiring \in {"no", "expired", "cleaned"}
    /\ lake = [p \in Places |-> lake[p]]
    /\ \A p \in Places : Sound(lake[p])
    /\ \A p \in Places : lake[p].is = "lake" => LivesAt(p, lake[p].path)

IsOnDisk(x) ==
    /\ x = [in |-> x.in, name |-> x.name, old |-> x.old]
    /\ x.in \in DataPaths /\ x.name \in Nat \ {0} /\ x.old \in BOOLEAN

Has(files, path, name) == \E x \in files : x.in = path /\ x.name = name

\* What the catalog of a place reads is where it lies, and what a copy reads is there
\* before it is relinked.
DiskInv ==
    /\ IsFiniteSet(disk) /\ \A x \in disk : IsOnDisk(x)
    /\ \A p \in Places : \A f \in lake[p].files : f.name # 0 => Has(disk, Home(p), f.name)

\* The file a load has written and not committed: unknown to the catalog, and too young
\* to be an orphan.
IsAwaited(name) ==
    /\ name \notin Recorded(lake[Catalog(env)])
    /\ Has(disk, DataPath(env), name)
    /\ \A x \in disk : x.in = DataPath(env) /\ x.name = name => ~x.old

StepInv ==
    /\ landing = [on |-> landing.on, cold |-> landing.cold, name |-> landing.name,
                  rows |-> landing.rows]
    /\ landing.on \in BOOLEAN /\ landing.cold \in BOOLEAN /\ landing.name \in Nat
    /\ landing.rows \subseteq Days \X Values /\ (landing # Idle => landing.rows # {})
    /\ ~landing.on => landing.name = 0
    /\ landing.on \/ expiring # "no" => lake[Catalog(env)].is = "lake"
    /\ landing.name # 0 => IsAwaited(landing.name)
    /\ expiring = "cleaned" => lake[Catalog(env)].scheduled = {}
    /\ landing.cold => held = <<>>

HeldInv == IsHeld(lake[Catalog(env)], held)

IInv == PlacesInv /\ DiskInv /\ StepInv /\ HeldInv

\* No two places have one home.
LEMMA HomesDiffer ==
  ASSUME env \in Setups, NEW p \in Places, NEW q \in Places, p # q, NEW x, NEW y,
         LivesAt(p, x), LivesAt(q, y)
  PROVE  HomeOf(p, x) # HomeOf(q, y) /\ HomeOf(p, x) \in DataPaths
<1>1. HomeOf(p, x) \in DataPaths
  BY CatalogsAreApart DEF LivesAt, HomeOf, DataPaths
<1>2. HomeOf(p, x) # HomeOf(q, y)
  BY CatalogsAreApart, PlacesAre DEF LivesAt, HomeOf
<1> QED
  BY <1>1, <1>2

\* A step that changes the catalog of one place and files of its data path only.
LEMMA OnePlaceChanges ==
  ASSUME PlacesInv, DiskInv, NEW p \in Places, NEW d, Sound(d),
         env' = env, reachable' \in BOOLEAN, expiring' \in {"no", "expired", "cleaned"},
         lake' = [lake EXCEPT ![p] = d], d.is = "lake" => LivesAt(p, d.path),
         IsFiniteSet(disk'), \A x \in disk' : IsOnDisk(x),
         \A x \in disk : x \in disk' \/ (d.is = "lake" /\ x.in = HomeOf(p, d.path)),
         \A f \in d.files : f.name # 0 => Has(disk', HomeOf(p, d.path), f.name)
  PROVE  PlacesInv' /\ DiskInv'
<1>1. /\ lake' = [q \in Places |-> lake'[q]] /\ lake'[p] = d
      /\ \A q \in Places : q # p => lake'[q] = lake[q]
  BY DEF PlacesInv
<1>2. PlacesInv'
  <2>1. \A q \in Places : Sound(lake'[q])
    BY <1>1 DEF PlacesInv
  <2>2. \A q \in Places : lake'[q].is = "lake" => LivesAt(q, lake'[q].path)
    BY <1>1 DEF PlacesInv
  <2>3. \A q, path : LivesAt(q, path)' <=> LivesAt(q, path)
    BY DEF LivesAt
  <2> QED
    BY <1>1, <2>1, <2>2, <2>3 DEF PlacesInv
<1>3. ASSUME NEW q \in Places, NEW f \in lake'[q].files, f.name # 0
      PROVE  Has(disk', HomeOf(q, lake'[q].path), f.name)
  <2>1. CASE q = p
    BY <1>1, <1>3, <2>1
  <2>2. CASE q # p
    <3>1. lake'[q] = lake[q] /\ f \in lake[q].files
      BY <1>1, <2>2
    <3>2. Has(disk, HomeOf(q, lake[q].path), f.name)
      BY <1>3, <3>1 DEF DiskInv, Home
    <3>3. PICK x \in disk : x.in = HomeOf(q, lake[q].path) /\ x.name = f.name
      BY <3>2 DEF Has
    <3>4. lake[q].is = "lake" /\ env \in Setups
      BY <3>1 DEF PlacesInv, Sound, IsLake
    <3>5. d.is = "lake" => HomeOf(q, lake[q].path) # HomeOf(p, d.path)
      BY <2>2, <3>4, HomesDiffer DEF PlacesInv
    <3>6. x \in disk'
      BY <3>3, <3>5
    <3> QED
      BY <3>1, <3>3, <3>6 DEF Has
  <2> QED
    BY <2>1, <2>2
<1>4. DiskInv'
  BY <1>3 DEF DiskInv, Home
<1> QED
  BY <1>2, <1>4

\* A step that leaves the person's catalog, load, expiry and files.
LEMMA OthersStep ==
  ASSUME PlacesInv, StepInv, HeldInv, UNCHANGED <<env, landing, expiring, held>>,
         lake'[Catalog(env)] = lake[Catalog(env)],
         \A x : x.in = DataPath(env) => (x \in disk' <=> x \in disk)
  PROVE  StepInv' /\ HeldInv'
<1> DEFINE own == Catalog(env)
<1> DEFINE path == DataPath(env)
<1>1. Catalog(env)' = own /\ DataPath(env)' = path /\ lake'[own] = lake[own]
  BY DEF Catalog, DataPath, IsRemoteCatalog, MetadataSchema
<1>2. ASSUME NEW name, IsAwaited(name)
      PROVE  IsAwaited(name)'
  <2> HIDE DEF own, path
  <2>1. (name \notin Recorded(lake[Catalog(env)]))'
    <3>1. name \notin Recorded(lake[own])
      BY <1>2 DEF IsAwaited, own
    <3>2. (lake[Catalog(env)])' = lake[own]
      BY <1>1
    <3> QED
      BY <3>1, <3>2 DEF Recorded
  <2>2. Has(disk, path, name) /\ \A x \in disk : x.in = path /\ x.name = name => ~x.old
    BY <1>2 DEF IsAwaited, path
  <2>3. \A x : x.in = path => (x \in disk' <=> x \in disk)
    BY DEF path
  <2>4. Has(disk', path, name) /\ \A x \in disk' : x.in = path /\ x.name = name => ~x.old
    BY <2>2, <2>3 DEF Has
  <2> QED
    BY <1>1, <2>1, <2>4 DEF IsAwaited
<1>3. StepInv'
  <2>1. (lake[Catalog(env)])' = lake[Catalog(env)]
    BY <1>1
  <2>2. landing.name # 0 => IsAwaited(landing.name)'
    BY <1>2 DEF StepInv
  <2>3. (landing.name # 0 => IsAwaited(landing.name))'
    BY <2>2 DEF IsAwaited
  <2> QED
    BY <2>1, <2>3 DEF StepInv
<1>4. HeldInv'
  BY <1>1 DEF HeldInv
<1> QED
  BY <1>3, <1>4

\* The person's catalog is where the environment says.
LEMMA OwnPlace ==
  ASSUME PlacesInv
  PROVE  /\ env \in Setups /\ Catalog(env) \in Places /\ Sound(lake[Catalog(env)])
         /\ HomeOf(Catalog(env), DataPath(env)) = DataPath(env)
         /\ LivesAt(Catalog(env), DataPath(env))
         /\ lake[Catalog(env)].is = "lake" => lake[Catalog(env)].path = DataPath(env)
BY CatalogsAreApart DEF PlacesInv, LivesAt, HomeOf

LEMMA FixturePlace ==
  ASSUME PlacesInv
  PROVE  LET e == FixtureEnv(env)
         IN /\ Catalog(e) \in Places /\ Sound(lake[Catalog(e)])
            /\ HomeOf(Catalog(e), DataPath(e)) = DataPath(e)
            /\ LivesAt(Catalog(e), DataPath(e))
            /\ lake[Catalog(e)].is = "lake" => lake[Catalog(e)].path = DataPath(e)
BY CatalogsAreApart DEF PlacesInv, LivesAt, HomeOf

\* A fresh name is in no catalog and on no disk.
LEMMA FreshNameIsFresh ==
  ASSUME PlacesInv, DiskInv, StepInv
  PROVE  /\ FreshName \in Nat \ {0} /\ FreshName # landing.name
         /\ \A p \in Places : FreshName \notin Recorded(lake[p])
         /\ \A x \in disk : x.name # FreshName
<1>1. \A p \in Places : IsFiniteSet(Recorded(lake[p]))
  <2> TAKE p \in Places
  <2> DEFINE files == lake[p].files
  <2> DEFINE name == [f \in files |-> f.name]
  <2>1. IsFiniteSet(files) /\ IsFiniteSet(lake[p].scheduled)
    BY DEF PlacesInv, Sound, IsLake
  <2>2. IsFiniteSet({name[f] : f \in files})
    <3> HIDE DEF files
    <3> QED
      BY <2>1, ImageIsFinite
  <2>3. {f.name : f \in files} \ {0} \subseteq {name[f] : f \in files}
    OBVIOUS
  <2>4. IsFiniteSet({f.name : f \in files} \ {0})
    BY <2>2, <2>3, FS_Subset
  <2> QED
    BY <2>1, <2>4, FS_Union DEF Recorded
<1>2. IsFiniteSet(UNION {Recorded(lake[p]) : p \in Places})
  <2> DEFINE recorded == [p \in Places |-> Recorded(lake[p])]
  <2>1. IsFiniteSet(Places)
    <3>1. IsFiniteSet({<<"file", "work">>, <<"file", "tmp">>, Copies, Released,
                       <<"postgres", "lakehouse">>, <<"postgres", "test_pipeline_tmp">>})
      <4>1. IsFiniteSet({<<"file", "work">>})
        BY FS_Singleton
      <4>2. IsFiniteSet({<<"file", "work">>} \cup {<<"file", "tmp">>})
        BY <4>1, FS_AddElement
      <4>3. IsFiniteSet({<<"file", "work">>} \cup {<<"file", "tmp">>} \cup {Copies})
        BY <4>2, FS_AddElement
      <4>4. IsFiniteSet({<<"file", "work">>} \cup {<<"file", "tmp">>} \cup {Copies} \cup {Released})
        BY <4>3, FS_AddElement
      <4>5. IsFiniteSet({<<"file", "work">>} \cup {<<"file", "tmp">>} \cup {Copies} \cup {Released}
                           \cup {<<"postgres", "lakehouse">>})
        BY <4>4, FS_AddElement
      <4>6. IsFiniteSet({<<"file", "work">>} \cup {<<"file", "tmp">>} \cup {Copies} \cup {Released}
                           \cup {<<"postgres", "lakehouse">>}
                           \cup {<<"postgres", "test_pipeline_tmp">>})
        BY <4>5, FS_AddElement
      <4>7. {<<"file", "work">>} \cup {<<"file", "tmp">>} \cup {Copies} \cup {Released}
               \cup {<<"postgres", "lakehouse">>} \cup {<<"postgres", "test_pipeline_tmp">>}
              = {<<"file", "work">>, <<"file", "tmp">>, Copies, Released,
                 <<"postgres", "lakehouse">>, <<"postgres", "test_pipeline_tmp">>}
        OBVIOUS
      <4> QED
        BY <4>6, <4>7
    <3> QED
      BY <3>1, PlacesAre
  <2>2. IsFiniteSet({recorded[p] : p \in Places})
    BY <2>1, ImageIsFinite
  <2>3. {recorded[p] : p \in Places} = {Recorded(lake[p]) : p \in Places}
    OBVIOUS
  <2> QED
    BY <1>1, <2>2, <2>3, FS_UNION
<1>3. IsFiniteSet({f.name : f \in disk})
  <2> DEFINE name == [f \in disk |-> f.name]
  <2>1. IsFiniteSet({name[f] : f \in disk})
    BY ImageIsFinite DEF DiskInv
  <2>2. {name[f] : f \in disk} = {f.name : f \in disk}
    OBVIOUS
  <2> QED
    BY <2>1, <2>2
<1>4. IsFiniteSet(Used)
  <2> DEFINE recorded == UNION {Recorded(lake[p]) : p \in Places}
  <2> DEFINE present == {f.name : f \in disk}
  <2> DEFINE both == recorded \cup present
  <2>1. IsFiniteSet(recorded) /\ IsFiniteSet(present)
    BY <1>2, <1>3
  <2>2. IsFiniteSet(both)
    <3> HIDE DEF recorded, present
    <3> QED
      BY <2>1, FS_Union
  <2>3. IsFiniteSet(both \cup {landing.name})
    <3> HIDE DEF both
    <3> QED
      BY <2>2, FS_AddElement
  <2> QED
    BY <2>3 DEF Used
<1>5. \E n \in 1 .. Cardinality(Used) + 1 : n \notin Used
  <2> DEFINE k == Cardinality(Used)
  <2>1. k \in Nat
    BY <1>4, FS_CardinalityType
  <2>2. Cardinality(1 .. k + 1) = k + 1
    BY <2>1, FS_Interval
  <2>3. ASSUME 1 .. k + 1 \subseteq Used
        PROVE  FALSE
    <3>1. Cardinality(1 .. k + 1) <= k
      BY <1>4, <2>3, FS_Subset
    <3> QED
      BY <2>1, <2>2, <3>1
  <2> QED
    BY <2>3
<1>6. FreshName \in 1 .. Cardinality(Used) + 1 /\ FreshName \notin Used
  BY <1>5 DEF FreshName
<1>7. FreshName \in Nat \ {0}
  <2>1. Cardinality(Used) \in Nat
    BY <1>4, FS_CardinalityType
  <2> QED
    BY <1>6, <2>1
<1>8. FreshName # landing.name /\ \A x \in disk : x.name # FreshName
  BY <1>6 DEF Used
<1>9. \A p \in Places : FreshName \notin Recorded(lake[p])
  BY <1>6 DEF Used
<1> QED
  BY <1>7, <1>8, <1>9

------------------------------------------------------------------------------
(* Every step keeps it. *)

\* Nothing is held of a catalog without files, and files and snapshots are all that counts.
LEMMA EmptyIsHeld ==
  ASSUME NEW c, NEW h, IsHeld(c, h), c.files = {}, NEW d, d.files = {}
  PROVE  h = <<>> /\ IsHeld(d, h)
<1>1. TableVersions(c, Weathers) = {} /\ TableVersions(d, Weathers) = {}
  BY DEF TableVersions
<1>2. h = <<>>
  BY <1>1 DEF IsHeld
<1> QED
  BY <1>1, <1>2 DEF IsHeld

LEMMA SameIsHeld ==
  ASSUME NEW c, NEW h, IsHeld(c, h), NEW d, d.files = c.files, d.snaps = c.snaps
  PROVE  IsHeld(d, h)
<1>1. TableVersions(d, Weathers) = TableVersions(c, Weathers)
  BY DEF TableVersions
<1>2. \A s : Shown(d, s) = Shown(c, s)
  BY DEF Shown, Rows
<1> QED
  BY <1>1, <1>2 DEF IsHeld

\* Where the person's places are is the environment's matter.
LEMMA PlacesStay ==
  ASSUME env' = env
  PROVE  Catalog(env)' = Catalog(env) /\ DataPath(env)' = DataPath(env)
BY DEF Catalog, DataPath, IsRemoteCatalog, MetadataSchema

LEMMA AwaitedStays ==
  ASSUME env' = env, NEW name, IsAwaited(name), name \notin Recorded(lake'[Catalog(env)]),
         \A x : x.in = DataPath(env) /\ x.name = name => (x \in disk' <=> x \in disk)
  PROVE  IsAwaited(name)'
<1> DEFINE own == Catalog(env)
<1> DEFINE path == DataPath(env)
<1>1. Catalog(env)' = own /\ DataPath(env)' = path
  BY PlacesStay
<1>2. /\ name \notin Recorded(lake'[own])
      /\ Has(disk, path, name) /\ \A x \in disk : x.in = path /\ x.name = name => ~x.old
      /\ \A x : x.in = path /\ x.name = name => (x \in disk' <=> x \in disk)
  BY DEF IsAwaited, own, path
<1> HIDE DEF own, path
<1>3. (name \notin Recorded(lake[Catalog(env)]))'
  <2>1. (lake[Catalog(env)])' = lake'[own]
    BY <1>1
  <2> QED
    BY <1>2, <2>1 DEF Recorded
<1>4. Has(disk', path, name) /\ \A x \in disk' : x.in = path /\ x.name = name => ~x.old
  BY <1>2 DEF Has
<1> QED
  BY <1>1, <1>3, <1>4 DEF IsAwaited

\* What a step of the person must leave of its load, its expiry and what is held.
LEMMA OwnStep ==
  ASSUME StepInv, env' = env, landing' = landing, expiring' \in {"no", "expired", "cleaned"},
         NEW d, lake'[Catalog(env)] = d,
         landing.on \/ expiring' # "no" => d.is = "lake",
         expiring' = "cleaned" => d.scheduled = {},
         landing.name # 0 => Recorded(d) \subseteq Recorded(lake[Catalog(env)]),
         \A x : x.in = DataPath(env) /\ x.name = landing.name /\ landing.name # 0
                  => (x \in disk' <=> x \in disk),
         held = <<>> => held' = <<>>
  PROVE  StepInv'
<1>1. (lake[Catalog(env)])' = d
  BY PlacesStay
<1>2. (landing.name # 0 => IsAwaited(landing.name))'
  <2>1. ASSUME NEW name, name = landing.name, name # 0
        PROVE  IsAwaited(name)'
    <3>1. IsAwaited(name) /\ name \notin Recorded(d)
      BY <2>1 DEF StepInv, IsAwaited
    <3>2. \A x : x.in = DataPath(env) /\ x.name = name => (x \in disk' <=> x \in disk)
      BY <2>1
    <3> QED
      BY <3>1, <3>2, AwaitedStays
  <2>2. landing'.name = landing.name
    OBVIOUS
  <2>3. \A name : name = landing'.name /\ name # 0 => IsAwaited(name)'
    BY <2>1, <2>2
  <2> QED
    BY <2>3 DEF IsAwaited
<1> QED
  BY <1>1, <1>2 DEF StepInv

\* A commit at a place, with its file on disk.
CommitsAt(p, c, d, new, become) ==
    /\ PlacesInv /\ DiskInv /\ Commits(c, d, new, become)
    /\ p \in Places /\ Sound(c) /\ c.is = "lake" /\ LivesAt(p, c.path)
    /\ \A f \in c.files : f.name # 0 => Has(disk, HomeOf(p, c.path), f.name)
    /\ env' = env /\ reachable' \in BOOLEAN /\ expiring' \in {"no", "expired", "cleaned"}
    /\ lake' = [lake EXCEPT ![p] = d] /\ disk \subseteq disk'
    /\ IsFiniteSet(disk') /\ \A x \in disk' : IsOnDisk(x)
    /\ new.name # 0 => Has(disk', HomeOf(p, c.path), new.name)

LEMMA CommitStep ==
  ASSUME NEW p, NEW c, NEW d, NEW new, NEW become, CommitsAt(p, c, d, new, become)
  PROVE  PlacesInv' /\ DiskInv' /\ d.is = "lake" /\ d.path = c.path /\ d.scheduled = c.scheduled
<1>0. /\ PlacesInv /\ DiskInv /\ Commits(c, d, new, become)
      /\ p \in Places /\ Sound(c) /\ c.is = "lake" /\ LivesAt(p, c.path)
      /\ \A f \in c.files : f.name # 0 => Has(disk, HomeOf(p, c.path), f.name)
      /\ env' = env /\ reachable' \in BOOLEAN /\ expiring' \in {"no", "expired", "cleaned"}
      /\ lake' = [lake EXCEPT ![p] = d] /\ disk \subseteq disk'
      /\ IsFiniteSet(disk') /\ \A x \in disk' : IsOnDisk(x)
      /\ new.name # 0 => Has(disk', HomeOf(p, c.path), new.name)
  BY DEF CommitsAt
<1> USE <1>0
<1>1. d.is = "lake" /\ d.path = c.path /\ d.scheduled = c.scheduled
  BY DEF Commits
<1>2. Sound(d)
  BY CommitIsSound
<1>3. ASSUME NEW f \in d.files, f.name # 0
      PROVE  Has(disk', HomeOf(p, c.path), f.name)
  <2>1. CASE f = new
    BY <1>3, <2>1
  <2>2. CASE f # new
    <3>1. PICK g \in c.files : f = become[g]
      BY <2>2 DEF Commits
    <3>2. f.name = g.name
      BY <3>1 DEF Commits, Follows
    <3>3. Has(disk, HomeOf(p, c.path), f.name)
      BY <1>3, <3>1, <3>2
    <3> QED
      BY <3>3 DEF Has
  <2> QED
    BY <2>1, <2>2
<1>4. \A x \in disk : x \in disk'
  OBVIOUS
<1> HIDE DEF Commits
<1>5. PlacesInv' /\ DiskInv'
  BY <1>1, <1>2, <1>3, <1>4, OnePlaceChanges
<1> QED
  BY <1>1, <1>5

\* A file written more is a file on disk.
LEMMA OneFileMore ==
  ASSUME DiskInv, NEW e, DataPath(e) \in DataPaths, NEW name \in Nat \ {0}
  PROVE  LET more == disk \cup {Written(e, name)}
         IN /\ IsFiniteSet(more) /\ \A x \in more : IsOnDisk(x)
            /\ Has(more, DataPath(e), name)
<1> DEFINE x == Written(e, name)
<1>1. IsOnDisk(x) /\ x.in = DataPath(e) /\ x.name = name
  BY DEF Written, IsOnDisk
<1>2. IsFiniteSet(disk \cup {x})
  <2> HIDE DEF x
  <2> QED
    BY FS_AddElement DEF DiskInv
<1>3. \A y \in disk \cup {x} : IsOnDisk(y)
  BY <1>1 DEF DiskInv
<1> QED
  BY <1>1, <1>2, <1>3 DEF Has

LEMMA LandingTakes ==
  ASSUME NEW x, x = [on |-> x.on, cold |-> x.cold, name |-> x.name, rows |-> x.rows],
         NEW v, NEW name
  PROVE  [x EXCEPT !.on = v, !.name = name] =
           [on |-> v, cold |-> x.cold, name |-> name, rows |-> x.rows]
<1> DEFINE part == [x EXCEPT !.on = v]
<1>1. part = [on |-> v, cold |-> x.cold, name |-> x.name, rows |-> x.rows]
  OBVIOUS
<1>2. [x EXCEPT !.on = v, !.name = name] = [part EXCEPT !.name = name]
  OBVIOUS
<1> HIDE DEF part
<1>3. [part EXCEPT !.name = name] =
        [on |-> part.on, cold |-> part.cold, name |-> name, rows |-> part.rows]
  BY <1>1
<1> QED
  BY <1>1, <1>2, <1>3

LEMMA DbtAttachesKeepsIt ==
  ASSUME IInv, DbtAttaches
  PROVE  IInv'
<1> DEFINE p == Catalog(env)
<1> DEFINE c == lake[p]
<1> DEFINE d == [c EXCEPT !.is = "blank"]
<1>1. /\ env' = env /\ reachable' = reachable /\ disk' = disk /\ landing' = landing
      /\ expiring' = expiring /\ held' = held /\ c.is = "nothing"
      /\ lake' = [lake EXCEPT ![p].is = "blank"]
  BY DEF DbtAttaches
<1>2. lake' = [lake EXCEPT ![p] = d]
  BY <1>1
<1>3. p \in Places /\ Sound(c)
  BY OwnPlace DEF IInv
<1>4. Sound(d) /\ d.files = {} /\ d.is = "blank" /\ c.files = {} /\ c.scheduled = {}
  BY <1>1, <1>3, BlankIsSound DEF Sound, IsLake
<1>5. lake'[p] = d
  BY <1>2, <1>3 DEF IInv, PlacesInv
<1>6. ~landing.on /\ expiring = "no"
  BY <1>1 DEF IInv, StepInv
<1> HIDE DEF p, d
<1>7. PlacesInv' /\ DiskInv'
  BY <1>1, <1>2, <1>3, <1>4, OnePlaceChanges DEF IInv, PlacesInv, DiskInv
<1>8. (lake[Catalog(env)])' = d
  BY <1>1, <1>5, PlacesStay DEF p
<1>9. HeldInv'
  <2>1. IsHeld(c, held)
    BY DEF IInv, HeldInv, p
  <2>2. IsHeld(d, held)
    BY <1>4, <2>1, EmptyIsHeld
  <2> QED
    BY <1>1, <1>8, <2>2 DEF HeldInv
<1>10. StepInv'
  BY <1>1, <1>6 DEF IInv, StepInv
<1> QED
  BY <1>7, <1>9, <1>10 DEF IInv

LEMMA PlanLoadKeepsIt ==
  ASSUME IInv, PlanLoad
  PROVE  IInv'
<1> DEFINE c == lake[Catalog(env)]
<1>1. UNCHANGED <<env, reachable, lake, disk, expiring, held>> /\ Probed(env)
  BY DEF PlanLoad
<1>2. WeatherWatermark(env) = 0 => held = <<>>
  <2> SUFFICES ASSUME held # <<>> PROVE WeatherWatermark(env) # 0
    OBVIOUS
  <2> DEFINE newest == {r.day : r \in Weather(c)}
  <2>1. IsHeld(c, held) /\ Sound(c)
    BY OwnPlace DEF IInv, HeldInv
  <2>2. newest # {} /\ Max(newest) # 0
    BY <2>1, HeldIsShown
  <2>3. c.files # {}
    BY <2>1, EmptyIsHeld
  <2>4. c.is = "lake"
    BY <2>1, <2>3 DEF Sound, IsLake
  <2>5. IsCatalog(env)
    BY <1>1, <2>4 DEF IsCatalog, Probed, Answers
  <2> QED
    BY <2>2, <2>5 DEF WeatherWatermark
<1>3. PICK days \in (SUBSET Days) \ {{}}, v \in Values :
        landing' = [on |-> FALSE, cold |-> WeatherWatermark(env) = 0, name |-> 0,
                    rows |-> {<<d, v>> : d \in days}]
  BY DEF PlanLoad
<1> DEFINE rows == {<<d, v>> : d \in days}
<1>4. rows \subseteq Days \X Values /\ rows # {}
  <2>1. PICK d \in days : TRUE
    OBVIOUS
  <2>2. <<d, v>> \in rows
    BY <2>1
  <2>3. \A x \in rows : x \in Days \X Values
    OBVIOUS
  <2> QED
    BY <2>2, <2>3
<1>5. PlacesInv' /\ DiskInv' /\ HeldInv'
  <2>1. PlacesInv'
    BY <1>1 DEF IInv, PlacesInv, LivesAt
  <2>2. DiskInv'
    BY <1>1 DEF IInv, DiskInv, Home
  <2>3. HeldInv'
    BY <1>1, PlacesStay DEF IInv, HeldInv
  <2> QED
    BY <2>1, <2>2, <2>3
<1>6. StepInv'
  <2> HIDE DEF rows
  <2>1. /\ landing'.on = FALSE /\ landing'.cold = (WeatherWatermark(env) = 0)
        /\ landing'.name = 0 /\ landing'.rows = rows
    BY <1>3 DEF rows
  <2>2. landing' = [on |-> landing'.on, cold |-> landing'.cold, name |-> landing'.name,
                    rows |-> landing'.rows]
    BY <1>3
  <2>3. landing'.cold \in BOOLEAN /\ (landing'.cold => held' = <<>>)
    BY <1>1, <1>2, <2>1
  <2>4. (lake[Catalog(env)])' = lake[Catalog(env)]
    BY <1>1, PlacesStay
  <2>5. landing'.on \in BOOLEAN /\ landing'.name \in Nat /\ ~landing'.on
    <3>1. landing'.on \in BOOLEAN
      BY <2>1
    <3>2. landing'.name \in Nat
      BY <2>1
    <3>3. ~landing'.on
      BY <2>1
    <3> QED
      BY <3>1, <3>2, <3>3
  <2>6. expiring' # "no" => (lake[Catalog(env)])'.is = "lake"
    BY <1>1, <2>4 DEF IInv, StepInv
  <2>7. expiring' = "cleaned" => (lake[Catalog(env)])'.scheduled = {}
    BY <1>1, <2>4 DEF IInv, StepInv
  <2> QED
    BY <1>4, <2>1, <2>2, <2>3, <2>5, <2>6, <2>7 DEF StepInv
<1> QED
  BY <1>5, <1>6 DEF IInv

LEMMA UploadKeepsIt ==
  ASSUME IInv, Upload
  PROVE  IInv'
<1> DEFINE p == Catalog(env)
<1> DEFINE c == lake[p]
<1> DEFINE name == IF Inlined(landing.rows) THEN 0 ELSE FreshName
<1> DEFINE d == IF c.is = "lake" THEN c ELSE NewCatalog(DataPath(env))
<1>1. /\ env' = env /\ reachable' = reachable /\ expiring' = expiring /\ held' = held
      /\ landing # Idle
      /\ landing' = [landing EXCEPT !.on = TRUE, !.name = name]
      /\ disk' = IF name = 0 THEN disk ELSE disk \cup {Written(env, name)}
      /\ lake' = IF c.is = "lake" THEN lake ELSE [lake EXCEPT ![p] = NewCatalog(DataPath(env))]
  BY DEF Upload
<1>2. p \in Places /\ Sound(c) /\ env \in Setups /\ HomeOf(p, DataPath(env)) = DataPath(env)
      /\ LivesAt(p, DataPath(env)) /\ (c.is = "lake" => c.path = DataPath(env))
  BY OwnPlace DEF IInv
<1>3. lake' = [lake EXCEPT ![p] = d] /\ lake'[p] = d
  BY <1>1, <1>2 DEF IInv, PlacesInv
<1>4. Sound(d) /\ d.is = "lake" /\ d.path = DataPath(env)
  BY <1>2, NewCatalogIsSound
<1>5. /\ FreshName \in Nat \ {0} /\ FreshName \notin Recorded(c)
      /\ \A x \in disk : x.name # FreshName
  BY <1>2, FreshNameIsFresh DEF IInv
<1>6. name \in Nat /\ (name # 0 => name \notin Recorded(d) /\ \A x \in disk : x.name # name)
  <2>1. FreshName \notin Recorded(d)
    BY <1>5, NewCatalogIsSound
  <2> QED
    BY <1>5, <2>1
<1>7. IsFiniteSet(disk') /\ (\A x \in disk' : IsOnDisk(x)) /\ \A x \in disk : x \in disk'
  <2>1. CASE name = 0
    BY <1>1, <2>1 DEF IInv, DiskInv
  <2>2. CASE name # 0
    <3>1. DataPath(env) \in DataPaths
      BY <1>2, CatalogsAreApart
    <3> HIDE DEF name
    <3>2. IsFiniteSet(disk \cup {Written(env, name)})
          /\ \A x \in disk \cup {Written(env, name)} : IsOnDisk(x)
      BY <1>6, <2>2, <3>1, OneFileMore DEF IInv
    <3> QED
      BY <1>1, <2>2, <3>2
  <2> QED
    BY <2>1, <2>2
<1>8. \A f \in d.files : f.name # 0 => Has(disk', HomeOf(p, d.path), f.name)
  <2>1. \A f \in d.files : f \in c.files /\ c.is = "lake"
    BY NewCatalogIsSound
  <2>2. \A f \in d.files : f.name # 0 => Has(disk, DataPath(env), f.name)
    BY <1>2, <2>1 DEF IInv, DiskInv, Home
  <2> QED
    BY <1>2, <1>4, <1>7, <2>2 DEF Has
<1>9. (lake[Catalog(env)])' = d
  BY <1>1, <1>3, PlacesStay
<1>10. c.is # "lake" => held = <<>> /\ IsHeld(d, held)
  <2>1. c.is # "lake" => c.files = {} /\ d.files = {}
    BY <1>2, NewCatalogIsSound DEF Sound, IsLake
  <2>2. IsHeld(c, held)
    BY DEF IInv, HeldInv
  <2> QED
    BY <2>1, <2>2, EmptyIsHeld
<1>11. HeldInv'
  <2>1. IsHeld(c, held)
    BY DEF IInv, HeldInv
  <2>2. IsHeld(d, held)
    BY <1>10, <2>1
  <2> HIDE DEF d, c
  <2> QED
    BY <1>1, <1>9, <2>2 DEF HeldInv
<1>12. expiring = "cleaned" => d.scheduled = {}
  <2>1. expiring = "cleaned" => c.is = "lake" /\ c.scheduled = {}
    BY DEF IInv, StepInv
  <2> QED
    BY <2>1
<1>13. landing' = [on |-> TRUE, cold |-> landing.cold, name |-> name, rows |-> landing.rows]
  <2>1. landing = [on |-> landing.on, cold |-> landing.cold, name |-> landing.name,
                   rows |-> landing.rows]
    BY DEF IInv, StepInv
  <2> HIDE DEF name
  <2> QED
    BY <1>1, <2>1, LandingTakes
<1> HIDE DEF name, d, c
<1>14. PlacesInv' /\ DiskInv'
  <2> HIDE DEF p
  <2>1. reachable' \in BOOLEAN /\ expiring' \in {"no", "expired", "cleaned"}
    BY <1>1 DEF IInv, PlacesInv
  <2>2. d.is = "lake" => LivesAt(p, d.path)
    BY <1>2, <1>4
  <2>3. PlacesInv /\ DiskInv
    BY DEF IInv
  <2> QED
    BY <1>1, <1>2, <1>3, <1>4, <1>7, <1>8, <2>1, <2>2, <2>3, OnePlaceChanges
<1>15. (landing.name # 0 => IsAwaited(landing.name))'
  <2>1. ASSUME name # 0
        PROVE  /\ name \notin Recorded(d) /\ Has(disk', DataPath(env), name)
               /\ \A x \in disk' : x.name = name => ~x.old
    <3>1. disk' = disk \cup {Written(env, name)}
      BY <1>1, <2>1
    <3>2. /\ Written(env, name).in = DataPath(env) /\ Written(env, name).name = name
          /\ ~Written(env, name).old
      BY DEF Written
    <3> QED
      BY <1>6, <2>1, <3>1, <3>2 DEF Has
  <2>2. landing'.name = name
    BY <1>13
  <2>3. ASSUME NEW n, n = name, n # 0
        PROVE  IsAwaited(n)'
    <3>1. (Recorded(lake[Catalog(env)]))' = Recorded(d)
      BY <1>9 DEF Recorded
    <3>2. DataPath(env)' = DataPath(env)
      BY <1>1, PlacesStay
    <3>3. /\ n \notin (Recorded(lake[Catalog(env)]))' /\ Has(disk', DataPath(env)', n)
          /\ \A x \in disk' : x.in = DataPath(env)' /\ x.name = n => ~x.old
      BY <2>1, <2>3, <3>1, <3>2
    <3> QED
      BY <3>3 DEF IsAwaited
  <2>4. \A n : n = landing'.name /\ n # 0 => IsAwaited(n)'
    BY <2>2, <2>3
  <2> QED
    BY <2>4 DEF IsAwaited
<1>16. StepInv'
  <2>1. landing.rows \subseteq Days \X Values /\ landing.rows # {} /\ landing.cold \in BOOLEAN
        /\ (landing.cold => held = <<>>)
    BY <1>1 DEF IInv, StepInv
  <2>2. /\ landing' = [on |-> landing'.on, cold |-> landing'.cold, name |-> landing'.name,
                       rows |-> landing'.rows]
        /\ landing'.rows = landing.rows /\ landing'.name = name
    BY <1>13
  <2>3. landing'.on = TRUE /\ landing'.cold = landing.cold
    BY <1>13
  <2>4. landing'.on \in BOOLEAN /\ landing'.cold \in BOOLEAN
    BY <2>1, <2>3
  <2>5. ~landing'.on => landing'.name = 0
    BY <2>3
  <2>6. landing'.cold => held' = <<>>
    BY <1>1, <2>1, <2>3
  <2>7. (lake[Catalog(env)])'.is = "lake"
    BY <1>4, <1>9
  <2>8. expiring' = "cleaned" => (lake[Catalog(env)])'.scheduled = {}
    BY <1>1, <1>9, <1>12
  <2> QED
    BY <1>6, <1>15, <2>1, <2>2, <2>4, <2>5, <2>6, <2>7, <2>8 DEF StepInv
<1> QED
  BY <1>11, <1>14, <1>16 DEF IInv

\* Without a load in flight there is less to keep.
LEMMA IdleStep ==
  ASSUME env' = env, landing' = Idle, expiring' \in {"no", "expired", "cleaned"},
         NEW d, lake'[Catalog(env)] = d, expiring' # "no" => d.is = "lake",
         expiring' = "cleaned" => d.scheduled = {}
  PROVE  StepInv'
<1>1. (lake[Catalog(env)])' = d
  BY PlacesStay
<1>2. /\ landing'.name = 0 /\ landing'.rows = {}
      /\ landing' = [on |-> landing'.on, cold |-> landing'.cold, name |-> landing'.name,
                     rows |-> landing'.rows]
  BY DEF Idle
<1>3. ~landing'.on /\ ~landing'.cold
  BY DEF Idle
<1>4. landing'.on \in BOOLEAN /\ landing'.cold \in BOOLEAN
  <2>1. landing'.on = FALSE /\ landing'.cold = FALSE
    BY DEF Idle
  <2> QED
    BY <2>1
<1>5. Idle' = Idle
  BY DEF Idle
<1> QED
  BY <1>1, <1>2, <1>3, <1>4, <1>5 DEF StepInv

LEMMA MergeKeepsIt ==
  ASSUME IInv, Merge
  PROVE  IInv'
<1> DEFINE p == Catalog(env)
<1> DEFINE c == lake[p]
<1> DEFINE name == landing.name
<1> DEFINE rows == landing.rows
<1> DEFINE d == MergedInto(c, name, rows)
<1> DEFINE now == {[day |-> r.day, value |-> r.value] : r \in Weather(d)}
<1>1. /\ env' = env /\ reachable' = reachable /\ disk' = disk /\ expiring' = expiring
      /\ landing.on /\ landing' = Idle /\ lake' = [lake EXCEPT ![p] = d]
      /\ held' = Append(IF Len(held) = 2 THEN Tail(held) ELSE held, now)
  BY DEF Merge
<1>2. p \in Places /\ Sound(c) /\ HomeOf(p, DataPath(env)) = DataPath(env)
      /\ LivesAt(p, DataPath(env)) /\ (c.is = "lake" => c.path = DataPath(env))
  BY OwnPlace DEF IInv
<1>3. landing # Idle
  <2>1. ~Idle.on
    BY DEF Idle
  <2> QED
    BY <1>1, <2>1
<1>4. /\ c.is = "lake" /\ name \in Nat /\ rows \in SUBSET (Days \X Values) /\ rows # {}
      /\ name # 0 => IsAwaited(name)
      /\ expiring = "cleaned" => c.scheduled = {}
  BY <1>1, <1>3 DEF IInv, StepInv
<1>5. name # 0 => name \notin Recorded(c) /\ Has(disk, DataPath(env), name)
  BY <1>4 DEF IsAwaited
<1> HIDE DEF name, rows
<1>6. Commits(c, d, File(c, Weathers, name, rows), Merging(c, rows))
  BY <1>2, <1>4, <1>5, MergeCommits DEF Sound
<1>7. lake'[p] = d
  BY <1>1, <1>2 DEF IInv, PlacesInv
<1>8. IsHeld(c, held)
  BY DEF IInv, HeldInv
<1>9. IsHeld(d, held')
  BY <1>1, <1>2, <1>4, <1>5, <1>8, MergeIsHeld
<1>10. PlacesInv /\ DiskInv /\ reachable' \in BOOLEAN /\ expiring' \in {"no", "expired", "cleaned"}
  BY <1>1 DEF IInv, PlacesInv
<1>11. /\ \A f \in c.files : f.name # 0 => Has(disk, HomeOf(p, c.path), f.name)
       /\ IsFiniteSet(disk') /\ \A x \in disk' : IsOnDisk(x)
  BY <1>1, <1>2, <1>10 DEF DiskInv, Home
<1>12. File(c, Weathers, name, rows).name = name
  BY DEF File
<1>13. name # 0 => Has(disk', HomeOf(p, c.path), name)
  BY <1>1, <1>2, <1>4, <1>5
<1> HIDE DEF d
<1>14. PlacesInv' /\ DiskInv' /\ d.is = "lake" /\ d.path = c.path /\ d.scheduled = c.scheduled
  <2> HIDE DEF p, c
  <2> DEFINE new == File(c, Weathers, name, rows)
  <2> DEFINE become == Merging(c, rows)
  <2>1. Commits(c, d, new, become) /\ (new.name # 0 => Has(disk', HomeOf(p, c.path), new.name))
    BY <1>6, <1>12, <1>13
  <2>2. LivesAt(p, c.path)
    BY <1>2, <1>4
  <2> HIDE DEF new, become
  <2> QED
    <3>1. CommitsAt(p, c, d, new, become)
      BY <1>1, <1>2, <1>4, <1>10, <1>11, <2>1, <2>2 DEF CommitsAt
    <3> QED
      BY <3>1, CommitStep
<1>15. HeldInv'
  <2>1. (lake[Catalog(env)])' = d
    BY <1>1, <1>7, PlacesStay
  <2> QED
    BY <1>9, <2>1 DEF HeldInv
<1>16. StepInv'
  <2>1. expiring' = "cleaned" => d.scheduled = {}
    BY <1>1, <1>4, <1>14
  <2> QED
    BY <1>1, <1>7, <1>10, <1>14, <2>1, IdleStep
<1> QED
  BY <1>14, <1>15, <1>16 DEF IInv

\* Steps that change no catalog and no file.
LEMMA LoadFailsKeepsIt ==
  ASSUME IInv, LoadFails
  PROVE  IInv'
<1>1. UNCHANGED <<env, reachable, lake, disk, expiring, held>> /\ landing' = Idle
  BY DEF LoadFails
<1>2. PlacesInv'
  BY <1>1 DEF IInv, PlacesInv, LivesAt
<1>3. DiskInv'
  BY <1>1 DEF IInv, DiskInv, Home
<1>4. HeldInv'
  BY <1>1, PlacesStay DEF IInv, HeldInv
<1>5. StepInv'
  <2>1. lake'[Catalog(env)] = lake[Catalog(env)] /\ expiring' \in {"no", "expired", "cleaned"}
    BY <1>1 DEF IInv, PlacesInv
  <2>2. /\ expiring' # "no" => lake[Catalog(env)].is = "lake"
        /\ expiring' = "cleaned" => lake[Catalog(env)].scheduled = {}
    BY <1>1 DEF IInv, StepInv
  <2> QED
    BY <1>1, <2>1, <2>2, IdleStep
<1> QED
  BY <1>2, <1>3, <1>4, <1>5 DEF IInv

LEMMA ExpiryFailsKeepsIt ==
  ASSUME IInv, ExpiryFails
  PROVE  IInv'
<1>1. UNCHANGED <<env, reachable, lake, disk, landing, held>> /\ expiring' = "no"
  BY DEF ExpiryFails
<1>2. PlacesInv'
  BY <1>1 DEF IInv, PlacesInv, LivesAt
<1>3. DiskInv'
  BY <1>1 DEF IInv, DiskInv, Home
<1>4. HeldInv'
  BY <1>1, PlacesStay DEF IInv, HeldInv
<1>5. StepInv'
  <2>1. lake'[Catalog(env)] = lake[Catalog(env)] /\ landing' = landing /\ env' = env
    BY <1>1
  <2>2. landing.on => lake[Catalog(env)].is = "lake"
    BY DEF IInv, StepInv
  <2> QED
    BY <1>1, <2>1, <2>2, OwnStep DEF IInv
<1> QED
  BY <1>2, <1>3, <1>4, <1>5 DEF IInv

LEMMA DatabaseGoesOrComesKeepsIt ==
  ASSUME IInv, DatabaseGoesOrComes
  PROVE  IInv'
<1>1. UNCHANGED <<env, lake, disk, landing, expiring, held>> /\ reachable' \in BOOLEAN
  BY DEF DatabaseGoesOrComes
<1>2. PlacesInv'
  BY <1>1 DEF IInv, PlacesInv, LivesAt
<1>3. DiskInv'
  BY <1>1 DEF IInv, DiskInv, Home
<1>4. HeldInv' /\ StepInv'
  <2>1. lake'[Catalog(env)] = lake[Catalog(env)]
        /\ \A x : x.in = DataPath(env) => (x \in disk' <=> x \in disk)
    BY <1>1
  <2> QED
    BY <1>1, <2>1, OthersStep DEF IInv
<1> QED
  BY <1>2, <1>3, <1>4 DEF IInv

LEMMA ReplaceKeepsIt ==
  ASSUME IInv, Replace
  PROVE  IInv'
<1> DEFINE p == Catalog(env)
<1> DEFINE c == lake[p]
<1> DEFINE name == FreshName
<1> DEFINE d == Replaced(c, "owid_co2", name)
<1> DEFINE new == File(c, "owid_co2", name, {<<0, 0>>})
<1> DEFINE become == Replacing(c, "owid_co2")
<1>1. /\ env' = env /\ reachable' = reachable /\ disk' = disk \cup {Written(env, name)}
      /\ landing = Idle /\ landing' = landing /\ expiring' = expiring /\ held' = held
      /\ c.is = "lake" /\ lake' = [lake EXCEPT ![p] = d]
  BY DEF Replace
<1>2. /\ p \in Places /\ Sound(c) /\ HomeOf(p, DataPath(env)) = DataPath(env)
      /\ LivesAt(p, c.path) /\ c.path = DataPath(env) /\ DataPath(env) \in DataPaths
  BY <1>1, OwnPlace, CatalogsAreApart DEF IInv
<1>3. name \in Nat \ {0} /\ name \notin Recorded(c)
  BY <1>2, FreshNameIsFresh DEF IInv
<1>4. lake'[p] = d
  BY <1>1, <1>2 DEF IInv, PlacesInv
<1>5. /\ PlacesInv /\ DiskInv
      /\ reachable' \in BOOLEAN /\ expiring' \in {"no", "expired", "cleaned"}
  BY <1>1 DEF IInv, PlacesInv
<1>6. new.name = name
  BY DEF File
<1> HIDE DEF name
<1>7. Commits(c, d, new, become)
  BY <1>2, <1>3, ReplaceCommits DEF Sound
<1>8. /\ IsFiniteSet(disk') /\ (\A x \in disk' : IsOnDisk(x)) /\ disk \subseteq disk'
      /\ Has(disk', HomeOf(p, c.path), new.name)
  BY <1>1, <1>2, <1>3, <1>5, <1>6, OneFileMore
<1>9. \A f \in c.files : f.name # 0 => Has(disk, HomeOf(p, c.path), f.name)
  BY <1>2, <1>5 DEF DiskInv, Home
<1>10. HeldInv'
  <2>1. IsHeld(c, held)
    BY DEF IInv, HeldInv
  <2>2. IsHeld(d, held)
    <3>1. "owid_co2" # Weathers
      BY DEF Weathers
    <3> QED
      BY <1>1, <1>2, <1>3, <2>1, <3>1, ReplaceIsHeld
  <2>3. (lake[Catalog(env)])' = d
    BY <1>1, <1>4, PlacesStay
  <2> HIDE DEF d
  <2> QED
    BY <1>1, <2>2, <2>3 DEF HeldInv
<1> HIDE DEF p, c, d, new, become
<1>11. PlacesInv' /\ DiskInv' /\ d.is = "lake" /\ d.path = c.path /\ d.scheduled = c.scheduled
  <2>1. CommitsAt(p, c, d, new, become)
    BY <1>1, <1>2, <1>5, <1>7, <1>8, <1>9 DEF CommitsAt
  <2> QED
    BY <2>1, CommitStep
<1>12. StepInv'
  <2>1. expiring' = "cleaned" => d.scheduled = {}
    BY <1>1, <1>11 DEF IInv, StepInv, c, p
  <2>2. lake'[Catalog(env)] = d
    BY <1>4 DEF p
  <2> QED
    BY <1>1, <1>5, <1>11, <2>1, <2>2, IdleStep
<1> QED
  BY <1>10, <1>11, <1>12 DEF IInv

LEMMA StartExpiryKeepsIt ==
  ASSUME IInv, NEW keep \in {1, 2}, StartExpiry(keep)
  PROVE  IInv'
<1> DEFINE p == Catalog(env)
<1> DEFINE c == lake[p]
<1> DEFINE d == ExpiredTo(c, keep)
<1>1. /\ env' = env /\ reachable' = reachable /\ disk' = disk /\ landing' = landing
      /\ expiring' = "expired" /\ lake' = [lake EXCEPT ![p] = d] /\ c.is = "lake"
      /\ held' = IF Len(held) > keep THEN <<Last(held)>> ELSE held
  BY DEF StartExpiry, IsCatalog
<1>2. /\ p \in Places /\ Sound(c) /\ HomeOf(p, DataPath(env)) = DataPath(env)
      /\ LivesAt(p, c.path) /\ c.path = DataPath(env)
  BY <1>1, OwnPlace DEF IInv
<1>3. /\ Sound(d) /\ d.is = "lake" /\ d.path = c.path /\ d.files \subseteq c.files
      /\ Recorded(d) \subseteq Recorded(c)
  BY <1>1, <1>2, ExpiredToIsSound
<1>4. lake'[p] = d
  BY <1>1, <1>2 DEF IInv, PlacesInv
<1>5. /\ PlacesInv /\ DiskInv
      /\ reachable' \in BOOLEAN /\ expiring' \in {"no", "expired", "cleaned"}
  BY <1>1 DEF IInv, PlacesInv
<1>6. \A f \in d.files : f.name # 0 => Has(disk', HomeOf(p, d.path), f.name)
  BY <1>1, <1>2, <1>3, <1>5 DEF DiskInv, Home
<1>7. IsHeld(c, held)
  BY DEF IInv, HeldInv
<1>8. IsHeld(d, held')
  BY <1>1, <1>2, <1>7, ExpiryIsHeld
<1> HIDE DEF d
<1>9. HeldInv'
  <2>1. (lake[Catalog(env)])' = d
    BY <1>1, <1>4, PlacesStay
  <2> QED
    BY <1>8, <2>1 DEF HeldInv
<1>10. StepInv'
  <2>1. held = <<>> => held' = <<>>
    BY <1>1
  <2>2. Recorded(d) \subseteq Recorded(lake[Catalog(env)]) /\ lake'[Catalog(env)] = d
    BY <1>3, <1>4
  <2> HIDE DEF p, c
  <2> QED
    BY <1>1, <1>3, <2>1, <2>2, OwnStep DEF IInv
<1>11. PlacesInv' /\ DiskInv'
  <2>1. IsFiniteSet(disk') /\ (\A x \in disk' : IsOnDisk(x)) /\ \A x \in disk : x \in disk'
    BY <1>1, <1>5 DEF DiskInv
  <2>2. LivesAt(p, d.path)
    BY <1>2, <1>3
  <2> HIDE DEF p
  <2> QED
    BY <1>1, <1>2, <1>3, <1>5, <1>6, <2>1, <2>2, OnePlaceChanges
<1> QED
  BY <1>9, <1>10, <1>11 DEF IInv

LEMMA CleanupKeepsIt ==
  ASSUME IInv, Cleanup
  PROVE  IInv'
<1> DEFINE p == Catalog(env)
<1> DEFINE c == lake[p]
<1> DEFINE d == [c EXCEPT !.scheduled = {}]
<1>1. /\ env' = env /\ reachable' = reachable /\ disk' = Cleaned(c, disk) /\ landing' = landing
      /\ expiring = "expired" /\ expiring' = "cleaned" /\ held' = held
      /\ lake' = [lake EXCEPT ![p].scheduled = {}]
  BY DEF Cleanup
<1>2. lake' = [lake EXCEPT ![p] = d]
  BY <1>1
<1>3. c.is = "lake"
  BY <1>1 DEF IInv, StepInv
<1>4. /\ p \in Places /\ Sound(c) /\ HomeOf(p, DataPath(env)) = DataPath(env)
      /\ LivesAt(p, c.path) /\ c.path = DataPath(env)
  BY <1>3, OwnPlace DEF IInv
<1>5. /\ Sound(d) /\ d.is = "lake" /\ d.path = c.path /\ d.files = c.files /\ d.snaps = c.snaps
      /\ d.scheduled = {} /\ Recorded(d) \subseteq Recorded(c)
  BY <1>3, <1>4, ClearedIsSound
<1>6. lake'[p] = d
  BY <1>2, <1>4 DEF IInv, PlacesInv
<1>7. /\ PlacesInv /\ DiskInv
      /\ reachable' \in BOOLEAN /\ expiring' \in {"no", "expired", "cleaned"}
  BY <1>1 DEF IInv, PlacesInv
<1>8. \A x : x \in disk' <=> x \in disk /\ (x.in # c.path \/ x.name \notin c.scheduled)
  BY <1>1 DEF Cleaned
<1>9. IsFiniteSet(disk') /\ (\A x \in disk' : IsOnDisk(x))
      /\ \A x \in disk : x \in disk' \/ x.in = HomeOf(p, d.path)
  <2>1. disk' \subseteq disk
    BY <1>8
  <2>2. IsFiniteSet(disk')
    BY <1>7, <2>1, FS_Subset DEF DiskInv
  <2> QED
    BY <1>4, <1>5, <1>7, <1>8, <2>2 DEF DiskInv
<1>10. ASSUME NEW f \in d.files, f.name # 0
       PROVE  Has(disk', HomeOf(p, d.path), f.name)
  <2>1. f \in c.files /\ f.name \notin c.scheduled
    BY <1>4, <1>5 DEF Sound, NamesApart
  <2>2. Has(disk, DataPath(env), f.name)
    BY <1>4, <1>7, <1>10, <2>1 DEF DiskInv, Home
  <2> QED
    BY <1>4, <1>5, <1>8, <2>1, <2>2 DEF Has
<1>11. landing.name # 0 => landing.name \notin c.scheduled
  BY DEF IInv, StepInv, IsAwaited, Recorded
<1>12. IsHeld(d, held)
  <2>1. IsHeld(c, held)
    BY DEF IInv, HeldInv
  <2> HIDE DEF c, d
  <2> QED
    BY <1>5, <2>1, SameIsHeld
<1> HIDE DEF d
<1>13. HeldInv'
  <2>1. (lake[Catalog(env)])' = d
    BY <1>1, <1>6, PlacesStay
  <2> QED
    BY <1>1, <1>12, <2>1 DEF HeldInv
<1>14. StepInv'
  <2>1. \A x : x.in = DataPath(env) /\ x.name = landing.name /\ landing.name # 0
                 => (x \in disk' <=> x \in disk)
    BY <1>8, <1>11
  <2>2. Recorded(d) \subseteq Recorded(lake[Catalog(env)]) /\ lake'[Catalog(env)] = d
    BY <1>5, <1>6
  <2> HIDE DEF p, c
  <2> QED
    BY <1>1, <1>5, <2>1, <2>2, OwnStep DEF IInv
<1>15. PlacesInv' /\ DiskInv'
  <2>1. LivesAt(p, d.path)
    BY <1>4, <1>5
  <2> HIDE DEF p, c
  <2> QED
    BY <1>1, <1>2, <1>4, <1>5, <1>7, <1>9, <1>10, <2>1, OnePlaceChanges
<1> QED
  BY <1>13, <1>14, <1>15 DEF IInv

LEMMA EndExpiryKeepsIt ==
  ASSUME IInv, EndExpiry
  PROVE  IInv'
<1> DEFINE p == Catalog(env)
<1> DEFINE c == lake[p]
<1>1. /\ env' = env /\ reachable' = reachable /\ disk' = disk \ Orphans(c, env)
      /\ landing' = landing /\ expiring = "cleaned" /\ expiring' = "no" /\ held' = held
      /\ lake' = lake
  BY DEF EndExpiry
<1>2. c.is = "lake"
  BY <1>1 DEF IInv, StepInv
<1>3. /\ env \in Setups /\ p \in Places /\ Sound(c) /\ HomeOf(p, DataPath(env)) = DataPath(env)
      /\ LivesAt(p, c.path) /\ c.path = DataPath(env)
  BY <1>2, OwnPlace DEF IInv
<1>4. /\ PlacesInv /\ DiskInv /\ lake' = [lake EXCEPT ![p] = c]
      /\ reachable' \in BOOLEAN /\ expiring' \in {"no", "expired", "cleaned"}
  BY <1>1 DEF IInv, PlacesInv
<1>5. ASSUME NEW x \in disk, x \notin disk'
      PROVE  x.in = DataPath(env) /\ x.old /\ x.name \notin Recorded(c)
  <2>1. OnDisk(env) /\ IsPrefix(c.path, x.in) /\ x.old /\ x.name \notin Recorded(c)
    BY <1>1, <1>5 DEF Orphans, Under
  <2>2. DataPath(env) = <<"work">>
    BY <1>3, <2>1, Layout
  <2>3. x.in \in DataPaths
    BY <1>4 DEF DiskInv, IsOnDisk
  <2>4. x.in = <<"work">>
    BY <1>3, <2>1, <2>2, <2>3, NothingBelow
  <2> QED
    BY <2>1, <2>2, <2>4
<1>6. disk' \subseteq disk
  BY <1>1
<1>7. IsFiniteSet(disk') /\ (\A x \in disk' : IsOnDisk(x))
      /\ \A x \in disk : x \in disk' \/ x.in = HomeOf(p, c.path)
  <2>1. IsFiniteSet(disk')
    BY <1>4, <1>6, FS_Subset DEF DiskInv
  <2> QED
    BY <1>3, <1>4, <1>5, <1>6, <2>1 DEF DiskInv
<1>8. ASSUME NEW f \in c.files, f.name # 0
      PROVE  Has(disk', HomeOf(p, c.path), f.name)
  <2>1. Has(disk, DataPath(env), f.name)
    BY <1>3, <1>4, <1>8 DEF DiskInv, Home
  <2>2. f.name \in Recorded(c)
    BY <1>8 DEF Recorded
  <2> QED
    BY <1>3, <1>5, <2>1, <2>2 DEF Has
<1>9. \A x : x.in = DataPath(env) /\ x.name = landing.name /\ landing.name # 0
               => (x \in disk' <=> x \in disk)
  BY <1>5, <1>6 DEF IInv, StepInv, IsAwaited
<1>10. StepInv'
  <2>1. landing.on => c.is = "lake"
    BY <1>2
  <2>2. lake'[Catalog(env)] = c
    BY <1>1
  <2>3. Recorded(c) \subseteq Recorded(lake[Catalog(env)])
    OBVIOUS
  <2> HIDE DEF p, c
  <2> QED
    BY <1>1, <1>4, <1>9, <2>1, <2>2, <2>3, OwnStep DEF IInv
<1>11. HeldInv'
  BY <1>1, PlacesStay DEF IInv, HeldInv
<1>12. PlacesInv' /\ DiskInv'
  <2> HIDE DEF p, c
  <2> QED
    BY <1>1, <1>2, <1>3, <1>4, <1>7, <1>8, OnePlaceChanges
<1> QED
  BY <1>10, <1>11, <1>12 DEF IInv

LEMMA FixtureLoadKeepsIt ==
  ASSUME IInv, FixtureLoad
  PROVE  IInv'
<1> DEFINE e == FixtureEnv(env)
<1> DEFINE p == Catalog(e)
<1> DEFINE c == IF IsCatalog(e) THEN lake[p] ELSE NewCatalog(DataPath(e))
<1> DEFINE name == FreshName
<1> DEFINE rows == {<<d, 0>> : d \in Days}
<1> DEFINE d == MergedInto(c, name, rows)
<1> DEFINE new == File(c, Weathers, name, rows)
<1> DEFINE become == Merging(c, rows)
<1>1. /\ UNCHANGED <<env, reachable, landing, expiring, held>>
      /\ lake' = [lake EXCEPT ![p] = d] /\ disk' = disk \cup {Written(e, name)}
  BY DEF FixtureLoad
<1>2. /\ env \in Setups /\ p \in Places /\ Sound(lake[p])
      /\ HomeOf(p, DataPath(e)) = DataPath(e) /\ LivesAt(p, DataPath(e))
      /\ (lake[p].is = "lake" => lake[p].path = DataPath(e))
  BY OwnPlace, FixturePlace DEF IInv
<1>3. /\ DataPath(e) \in DataPaths /\ p # Catalog(env) /\ DataPath(e) # DataPath(env)
      /\ Catalog(env) \in Places
  BY <1>2, CatalogsAreApart
<1>4. Sound(c) /\ c.is = "lake" /\ c.path = DataPath(e)
  BY <1>2, NewCatalogIsSound DEF IsCatalog
<1>5. name \in Nat \ {0} /\ name \notin Recorded(c)
  BY <1>2, FreshNameIsFresh, NewCatalogIsSound DEF IInv
<1>6. PlacesInv /\ DiskInv /\ reachable' \in BOOLEAN /\ expiring' \in {"no", "expired", "cleaned"}
  BY <1>1 DEF IInv, PlacesInv
<1>7. \A f \in c.files : f.name # 0 => Has(disk, HomeOf(p, c.path), f.name)
  <2>1. CASE IsCatalog(e)
    BY <1>2, <1>4, <1>6, <2>1 DEF DiskInv, Home
  <2>2. CASE ~IsCatalog(e)
    BY <2>2, NewCatalogIsSound
  <2> QED
    BY <2>1, <2>2
<1>8. new.name = name
  BY DEF File
<1> HIDE DEF name, rows, c
<1>9. Commits(c, d, new, become)
  BY <1>4, <1>5, MergeCommits DEF Sound
<1>10. /\ IsFiniteSet(disk') /\ (\A x \in disk' : IsOnDisk(x)) /\ disk \subseteq disk'
       /\ Has(disk', HomeOf(p, c.path), new.name)
  <2> HIDE DEF e
  <2> QED
    BY <1>1, <1>2, <1>3, <1>4, <1>5, <1>6, <1>8, OneFileMore
<1>11. /\ lake'[Catalog(env)] = lake[Catalog(env)]
       /\ \A x : x.in = DataPath(env) => (x \in disk' <=> x \in disk)
  <2>1. Written(e, name).in = DataPath(e)
    BY DEF Written
  <2> HIDE DEF e, d
  <2> QED
    BY <1>1, <1>3, <1>6, <2>1 DEF PlacesInv
<1>12. StepInv' /\ HeldInv'
  BY <1>1, <1>11, OthersStep DEF IInv
<1> HIDE DEF e, p, d, new, become
<1>13. PlacesInv' /\ DiskInv'
  <2>1. CommitsAt(p, c, d, new, become)
    BY <1>1, <1>2, <1>4, <1>6, <1>7, <1>9, <1>10 DEF CommitsAt
  <2> QED
    BY <2>1, CommitStep
<1> QED
  BY <1>12, <1>13 DEF IInv

\* A whole expiry, run where no file of the person's lies.
LEMMA ExpiresKeepsIt ==
  ASSUME IInv, NEW e, Catalog(e) \in Places, Catalog(e) # Catalog(env),
         HomeOf(Catalog(e), DataPath(e)) = DataPath(e), LivesAt(Catalog(e), DataPath(e)),
         DataPath(e) # DataPath(env), OnDisk(e) => DataPath(e) \in {<<"tmp">>, <<"copy">>},
         NEW keep \in Nat \ {0}, Expires(e, keep),
         UNCHANGED <<env, reachable, landing, expiring, held>>
  PROVE  IInv'
<1> DEFINE p == Catalog(e)
<1> DEFINE c == ExpiredTo(lake[p], keep)
<1> DEFINE d == [c EXCEPT !.scheduled = {}]
<1>1. /\ lake' = [lake EXCEPT ![p] = d] /\ disk' = Cleaned(c, disk) \ Orphans(d, e)
      /\ lake[p].is = "lake" /\ lake[p].path = DataPath(e)
  BY DEF Expires, IsCatalog, Attaches
<1>2. Sound(lake[p])
  BY DEF IInv, PlacesInv
<1>3. Sound(c) /\ c.is = "lake" /\ c.path = DataPath(e) /\ c.files \subseteq lake[p].files
  BY <1>1, <1>2, ExpiredToIsSound
<1> HIDE DEF c
<1>4. /\ Sound(d) /\ d.is = "lake" /\ d.path = DataPath(e) /\ d.files = c.files
      /\ d.scheduled = {}
  BY <1>3, ClearedIsSound
<1> HIDE DEF d
<1>5. PlacesInv /\ DiskInv /\ reachable' \in BOOLEAN /\ expiring' \in {"no", "expired", "cleaned"}
  BY DEF IInv, PlacesInv
<1>6. ASSUME NEW x \in disk, x \notin disk'
      PROVE  x.in = DataPath(e) /\ (x.name \in c.scheduled \/ x.name \notin Recorded(d))
  <2>1. CASE x \in Orphans(d, e)
    <3>1. OnDisk(e) /\ IsPrefix(DataPath(e), x.in) /\ x.name \notin Recorded(d)
      BY <1>4, <2>1 DEF Orphans, Under
    <3>2. x.in \in DataPaths
      BY <1>5 DEF DiskInv, IsOnDisk
    <3>3. DataPath(e) = <<"tmp">> \/ DataPath(e) = <<"copy">>
      BY <3>1
    <3>4. x.in = DataPath(e)
      BY <3>1, <3>2, <3>3, NothingBelow
    <3> QED
      BY <3>1, <3>4
  <2>2. CASE x \notin Orphans(d, e)
    BY <1>1, <1>3, <1>6, <2>2 DEF Cleaned
  <2> QED
    BY <2>1, <2>2
<1>7. disk' \subseteq disk
  BY <1>1 DEF Cleaned
<1>8. IsFiniteSet(disk') /\ (\A x \in disk' : IsOnDisk(x))
      /\ \A x \in disk : x \in disk' \/ x.in = HomeOf(p, d.path)
  <2>1. IsFiniteSet(disk')
    BY <1>5, <1>7, FS_Subset DEF DiskInv
  <2> QED
    BY <1>4, <1>5, <1>6, <1>7, <2>1 DEF DiskInv
<1>9. ASSUME NEW f \in d.files, f.name # 0
      PROVE  Has(disk', HomeOf(p, d.path), f.name)
  <2>1. f \in lake[p].files /\ f.name \notin c.scheduled
    BY <1>3, <1>4 DEF Sound, NamesApart
  <2>2. Has(disk, DataPath(e), f.name)
    BY <1>1, <1>5, <1>9, <2>1 DEF DiskInv, Home
  <2>3. f.name \in Recorded(d)
    BY <1>9 DEF Recorded
  <2> QED
    BY <1>4, <1>6, <2>1, <2>2, <2>3 DEF Has
<1>10. /\ lake'[Catalog(env)] = lake[Catalog(env)]
       /\ \A x : x.in = DataPath(env) => (x \in disk' <=> x \in disk)
  <2>1. Catalog(env) \in Places
    BY OwnPlace DEF IInv
  <2> QED
    BY <1>1, <1>5, <1>6, <1>7, <2>1 DEF PlacesInv
<1>11. StepInv' /\ HeldInv'
  BY <1>10, OthersStep DEF IInv
<1> HIDE DEF p
<1>12. PlacesInv' /\ DiskInv'
  BY <1>1, <1>4, <1>5, <1>8, <1>9, OnePlaceChanges DEF p
<1> QED
  BY <1>11, <1>12 DEF IInv

LEMMA FixtureExpiresKeepsIt ==
  ASSUME IInv, FixtureExpires
  PROVE  IInv'
<1> DEFINE e == FixtureEnv(env)
<1>1. /\ env \in Setups /\ Catalog(e) \in Places
      /\ HomeOf(Catalog(e), DataPath(e)) = DataPath(e) /\ LivesAt(Catalog(e), DataPath(e))
  BY OwnPlace, FixturePlace DEF IInv
<1>2. Catalog(e) # Catalog(env) /\ DataPath(e) # DataPath(env)
  BY <1>1, CatalogsAreApart
<1>3. OnDisk(e) => DataPath(e) \in {<<"tmp">>, <<"copy">>}
  BY <1>1, Layout
<1>4. Expires(e, 2) /\ UNCHANGED <<env, reachable, landing, expiring, held>>
  BY DEF FixtureExpires
<1> HIDE DEF e
<1> QED
  BY <1>1, <1>2, <1>3, <1>4, ExpiresKeepsIt

LEMMA CopyExpiresKeepsIt ==
  ASSUME IInv, CopyExpires
  PROVE  IInv'
<1> DEFINE e == CopyEnv
<1>1. /\ env \in Setups /\ Catalog(e) = Copies /\ DataPath(e) = <<"copy">>
  BY OwnPlace, CopyLayout DEF IInv
<1>2. /\ Catalog(e) \in Places /\ HomeOf(Catalog(e), DataPath(e)) = DataPath(e)
      /\ LivesAt(Catalog(e), DataPath(e))
  BY <1>1, PlacesAre DEF HomeOf, LivesAt
<1>3. Catalog(e) # Catalog(env) /\ DataPath(e) # DataPath(env)
  BY <1>1, CatalogsAreApart
<1>4. Expires(e, 1) /\ UNCHANGED <<env, reachable, landing, expiring, held>>
  BY DEF CopyExpires
<1>5. OnDisk(e) => DataPath(e) \in {<<"tmp">>, <<"copy">>}
  BY <1>1
<1> HIDE DEF e
<1> QED
  BY <1>2, <1>3, <1>4, <1>5, ExpiresKeepsIt

LEMMA DropFixtureSchemaKeepsIt ==
  ASSUME IInv, DropFixtureSchema
  PROVE  IInv'
<1> DEFINE p == Catalog(FixtureEnv(env))
<1>1. /\ UNCHANGED <<env, reachable, disk, landing, expiring, held>>
      /\ lake' = [lake EXCEPT ![p] = NoCatalog]
  BY DEF DropFixtureSchema
<1>2. env \in Setups /\ p \in Places /\ Catalog(env) \in Places /\ p # Catalog(env)
  BY OwnPlace, FixturePlace, CatalogsAreApart DEF IInv
<1>3. PlacesInv /\ DiskInv /\ reachable' \in BOOLEAN /\ expiring' \in {"no", "expired", "cleaned"}
  BY <1>1 DEF IInv, PlacesInv
<1>4. /\ lake'[Catalog(env)] = lake[Catalog(env)]
      /\ \A x : x.in = DataPath(env) => (x \in disk' <=> x \in disk)
  BY <1>1, <1>2, <1>3 DEF PlacesInv
<1>5. StepInv' /\ HeldInv'
  BY <1>1, <1>4, OthersStep DEF IInv
<1>6. IsFiniteSet(disk') /\ (\A x \in disk' : IsOnDisk(x)) /\ \A x \in disk : x \in disk'
  BY <1>1, <1>3 DEF DiskInv
<1> HIDE DEF p
<1>7. PlacesInv' /\ DiskInv'
  BY <1>1, <1>2, <1>3, <1>6, NoCatalogIsSound, OnePlaceChanges
<1> QED
  BY <1>5, <1>7 DEF IInv

LEMMA RelinkKeepsIt ==
  ASSUME IInv, Relink
  PROVE  IInv'
<1> DEFINE c == lake[Copies]
<1> DEFINE d == [c EXCEPT !.path = <<"copy">>]
<1>1. /\ UNCHANGED <<env, reachable, disk, landing, expiring, held>>
      /\ lake' = [lake EXCEPT ![Copies].path = <<"copy">>] /\ c.is = "lake"
  BY CopyLayout DEF Relink
<1>2. lake' = [lake EXCEPT ![Copies] = d]
  BY <1>1
<1>3. Copies \in Places /\ Catalog(env) \in Places /\ Copies # Catalog(env)
  BY OwnPlace, PlacesAre, CatalogsAreApart DEF IInv
<1>4. PlacesInv /\ DiskInv /\ reachable' \in BOOLEAN /\ expiring' \in {"no", "expired", "cleaned"}
  BY <1>1 DEF IInv, PlacesInv
<1>5. Sound(c) /\ LivesAt(Copies, c.path)
  BY <1>1, <1>3, <1>4 DEF PlacesInv
<1>6. Sound(d) /\ d.path = <<"copy">> /\ d.files = c.files
  BY <1>5, RelinkedIsSound
<1>7. LivesAt(Copies, d.path) /\ HomeOf(Copies, d.path) = HomeOf(Copies, c.path)
  BY <1>6 DEF LivesAt, HomeOf
<1>8. /\ lake'[Catalog(env)] = lake[Catalog(env)]
      /\ \A x : x.in = DataPath(env) => (x \in disk' <=> x \in disk)
  BY <1>1, <1>2, <1>3, <1>4 DEF PlacesInv
<1>9. StepInv' /\ HeldInv'
  BY <1>1, <1>8, OthersStep DEF IInv
<1>10. /\ IsFiniteSet(disk') /\ (\A x \in disk' : IsOnDisk(x)) /\ \A x \in disk : x \in disk'
       /\ \A f \in d.files : f.name # 0 => Has(disk', HomeOf(Copies, d.path), f.name)
  BY <1>1, <1>3, <1>4, <1>6, <1>7 DEF DiskInv, Home
<1> HIDE DEF d
<1>11. PlacesInv' /\ DiskInv'
  BY <1>1, <1>2, <1>3, <1>4, <1>6, <1>7, <1>10, OnePlaceChanges
<1> QED
  BY <1>9, <1>11 DEF IInv

LEMMA CopyLakeKeepsIt ==
  ASSUME IInv, CopyLake
  PROVE  IInv'
<1> DEFINE c == lake[Catalog(env)]
<1> DEFINE moved == [f \in Under(DataPath(env)) |-> [f EXCEPT !.in = <<"copy">>]]
<1>1. /\ UNCHANGED <<env, reachable, landing, expiring, held>> /\ ~Remote(env)
      /\ lake' = [lake EXCEPT ![Copies] = c] /\ c.is = "lake"
      /\ disk' = disk \cup {[f EXCEPT !.in = <<"copy">>] : f \in Under(DataPath(env))}
  BY CopyLayout DEF CopyLake
<1>2. /\ env \in Setups /\ Catalog(env) \in Places /\ Sound(c) /\ c.path = DataPath(env)
      /\ HomeOf(Catalog(env), DataPath(env)) = DataPath(env)
      /\ Copies \in Places /\ Copies # Catalog(env) /\ DataPath(env) # <<"copy">>
  BY <1>1, OwnPlace, PlacesAre, CatalogsAreApart DEF IInv
<1>3. DataPath(env) = <<"work">>
  BY <1>1, <1>2, Layout DEF Remote, OnDisk
<1>4. PlacesInv /\ DiskInv /\ reachable' \in BOOLEAN /\ expiring' \in {"no", "expired", "cleaned"}
  BY <1>1 DEF IInv, PlacesInv
<1>5. LivesAt(Copies, c.path) /\ HomeOf(Copies, c.path) = <<"copy">>
  BY <1>2, <1>3 DEF LivesAt, HomeOf
<1>6. \A f \in disk : f.in = DataPath(env) => f \in Under(DataPath(env))
  <2>1. <<"work">> \in DataPaths
    BY DEF DataPaths
  <2>2. IsPrefix(<<"work">>, <<"work">>)
    BY <2>1, NothingBelow
  <2> QED
    BY <1>3, <2>2 DEF Under
<1>7. Under(DataPath(env)) \subseteq disk
  BY DEF Under
<1>8. \A f \in Under(DataPath(env)) :
        /\ IsOnDisk(moved[f]) /\ moved[f].in = <<"copy">> /\ moved[f].name = f.name
  <2> SUFFICES ASSUME NEW f \in Under(DataPath(env))
               PROVE  LET x == [f EXCEPT !.in = <<"copy">>]
                      IN IsOnDisk(x) /\ x.in = <<"copy">> /\ x.name = f.name
    OBVIOUS
  <2> DEFINE path == <<"copy">>
  <2>1. path \in DataPaths
    BY DEF DataPaths
  <2> HIDE DEF path
  <2>2. /\ f = [in |-> f.in, name |-> f.name, old |-> f.old]
        /\ f.name \in Nat \ {0} /\ f.old \in BOOLEAN
    BY <1>4, <1>7 DEF DiskInv, IsOnDisk
  <2>3. [f EXCEPT !.in = path] = [in |-> path, name |-> f.name, old |-> f.old]
    BY <2>2
  <2>4. IsOnDisk([f EXCEPT !.in = path])
    BY <2>1, <2>2, <2>3 DEF IsOnDisk
  <2> QED
    BY <2>3, <2>4 DEF path
<1>9. \A x : x \in disk' <=> x \in disk \/ \E f \in Under(DataPath(env)) : x = moved[f]
  BY <1>1
<1>10. IsFiniteSet(disk')
  <2> DEFINE under == Under(DataPath(env))
  <2>1. IsFiniteSet(under)
    BY <1>4, <1>7, FS_Subset DEF DiskInv
  <2>2. moved = [f \in under |-> moved[f]]
    OBVIOUS
  <2>3. {[f EXCEPT !.in = <<"copy">>] : f \in under} = {moved[f] : f \in under}
    OBVIOUS
  <2> HIDE DEF moved, under
  <2>4. IsFiniteSet({moved[f] : f \in under})
    BY <2>1, <2>2, ImageIsFinite
  <2> DEFINE more == {moved[f] : f \in under}
  <2>5. disk' = disk \cup more
    BY <1>1, <2>3 DEF under
  <2> HIDE DEF more
  <2> QED
    BY <1>4, <2>4, <2>5, FS_Union DEF DiskInv, more
<1> HIDE DEF moved
<1>11. (\A x \in disk' : IsOnDisk(x)) /\ \A x \in disk : x \in disk'
  BY <1>4, <1>8, <1>9 DEF DiskInv
<1>12. ASSUME NEW f \in c.files, f.name # 0
       PROVE  Has(disk', HomeOf(Copies, c.path), f.name)
  <2>1. Has(disk, DataPath(env), f.name)
    BY <1>2, <1>4, <1>12 DEF DiskInv, Home
  <2>2. PICK x \in disk : x.in = DataPath(env) /\ x.name = f.name
    BY <2>1 DEF Has
  <2>3. x \in Under(DataPath(env))
    BY <1>6, <2>2
  <2> QED
    BY <1>5, <1>8, <1>9, <2>2, <2>3 DEF Has
<1>13. /\ lake'[Catalog(env)] = lake[Catalog(env)]
       /\ \A x : x.in = DataPath(env) => (x \in disk' <=> x \in disk)
  <2>1. lake'[Catalog(env)] = lake[Catalog(env)]
    BY <1>1, <1>2, <1>4 DEF PlacesInv
  <2>2. \A x : x.in = DataPath(env) => (x \in disk' <=> x \in disk)
    BY <1>2, <1>8, <1>9
  <2> QED
    BY <2>1, <2>2
<1>14. StepInv' /\ HeldInv'
  BY <1>1, <1>13, OthersStep DEF IInv
<1> HIDE DEF c
<1>15. PlacesInv' /\ DiskInv'
  BY <1>1, <1>2, <1>4, <1>5, <1>10, <1>11, <1>12, OnePlaceChanges
<1> QED
  BY <1>14, <1>15 DEF IInv

\* A release's catalog names at most the one file built for it.
LEMMA PublishedIsSound ==
  ASSUME NEW c, NEW name \in Nat
  PROVE  LET d == Published(c, name)
         IN /\ Sound(d) /\ d.is = "lake" /\ d.path = <<"release">>
            /\ d.files = {} \/ \E f : d.files = {f} /\ f.name = name
<1> DEFINE new == NewCatalog(<<"release">>)
<1> DEFINE rows == {<<r.day, r.value>> : r \in Weather(c)}
<1> DEFINE become == [f \in {} |-> f]
<1> DEFINE file == File(new, Weathers, name, rows)
<1> DEFINE d == Published(c, name)
<1>1. /\ Sound(new) /\ new.is = "lake" /\ new.path = <<"release">> /\ new.files = {}
  BY NewCatalogIsSound
<1>2. d = new \/ Commits(new, d, file, become)
  BY PublishedIs
<1>3. file.name = name
  BY DEF File
<1> HIDE DEF new, file, d, become
<1>4. CASE d = new
  BY <1>1, <1>4 DEF d
<1>5. CASE Commits(new, d, file, become)
  <2>1. Sound(d)
    BY <1>1, <1>5, CommitIsSound
  <2>2. d.is = "lake" /\ d.path = <<"release">> /\ d.files = {file}
    BY <1>1, <1>5 DEF Commits
  <2> QED
    BY <1>3, <2>1, <2>2 DEF d
<1> QED
  BY <1>2, <1>4, <1>5

LEMMA PublishKeepsIt ==
  ASSUME IInv, Publish
  PROVE  IInv'
<1> DEFINE name == FreshName
<1> DEFINE d == Published(lake[Catalog(env)], name)
<1> DEFINE path == <<"release">>
<1> DEFINE built == {[in |-> path, name |-> f.name, old |-> FALSE] : f \in d.files}
<1>1. /\ UNCHANGED <<env, reachable, landing, expiring, held>>
      /\ lake' = [lake EXCEPT ![Released] = d]
      /\ disk' = {f \in disk : f.in # path} \cup built
  BY DEF Publish, Released
<1>2. /\ env \in Setups /\ Catalog(env) \in Places /\ Released \in Places
      /\ Released # Catalog(env) /\ DataPath(env) # path /\ path \in DataPaths
  BY OwnPlace, PlacesAre, CatalogsAreApart DEF IInv, DataPaths
<1>3. name \in Nat \ {0}
  BY FreshNameIsFresh DEF IInv
<1> HIDE DEF name
<1>4. /\ Sound(d) /\ d.is = "lake" /\ d.path = path
      /\ d.files = {} \/ \E f : d.files = {f} /\ f.name = name
  BY <1>3, PublishedIsSound
<1> HIDE DEF path, d
<1>5. PlacesInv /\ DiskInv /\ reachable' \in BOOLEAN /\ expiring' \in {"no", "expired", "cleaned"}
  BY <1>1 DEF IInv, PlacesInv
<1>6. LivesAt(Released, path) /\ HomeOf(Released, path) = path
  BY PlacesAre DEF LivesAt, HomeOf, path
<1>7. /\ \A x \in built : IsOnDisk(x) /\ x.in = path
      /\ \A f \in d.files : Has(built, path, f.name)
      /\ IsFiniteSet(built)
  <2>1. CASE d.files = {}
    <3>1. built = {}
      BY <2>1
    <3> QED
      BY <2>1, <3>1, FS_EmptySet
  <2>2. CASE \E f : d.files = {f} /\ f.name = name
    <3> DEFINE x == [in |-> path, name |-> name, old |-> FALSE]
    <3>1. built = {x}
      BY <2>2
    <3>2. IsOnDisk(x) /\ x.in = path /\ x.name = name
      BY <1>2, <1>3 DEF IsOnDisk
    <3> HIDE DEF x, built
    <3>3. \A f \in d.files : Has(built, path, f.name)
      BY <2>2, <3>1, <3>2 DEF Has
    <3>4. IsFiniteSet(built)
      BY <3>1, FS_Singleton
    <3> QED
      BY <3>1, <3>2, <3>3, <3>4
  <2> QED
    BY <1>4, <2>1, <2>2
<1> HIDE DEF built
<1>8. IsFiniteSet(disk')
  <2> DEFINE others == {f \in disk : f.in # path}
  <2>1. IsFiniteSet(others)
    <3>1. others \subseteq disk
      OBVIOUS
    <3> QED
      BY <1>5, <3>1, FS_Subset DEF DiskInv
  <2> HIDE DEF others
  <2> QED
    BY <1>1, <1>7, <2>1, FS_Union DEF others
<1>9. /\ \A x \in disk' : IsOnDisk(x)
      /\ \A x \in disk : x \in disk' \/ x.in = path
      /\ \A f \in d.files : f.name # 0 => Has(disk', path, f.name)
  BY <1>1, <1>5, <1>7 DEF DiskInv, Has
<1>10. /\ lake'[Catalog(env)] = lake[Catalog(env)]
       /\ \A x : x.in = DataPath(env) => (x \in disk' <=> x \in disk)
  BY <1>1, <1>2, <1>5, <1>7 DEF PlacesInv
<1>11. StepInv' /\ HeldInv'
  BY <1>1, <1>10, OthersStep DEF IInv
<1>12. PlacesInv' /\ DiskInv'
  BY <1>1, <1>2, <1>4, <1>5, <1>6, <1>8, <1>9, OnePlaceChanges
<1> QED
  BY <1>11, <1>12 DEF IInv

LEMMA DayPassesKeepsIt ==
  ASSUME IInv, DayPasses
  PROVE  IInv'
<1> DEFINE older == [f \in disk |-> [f EXCEPT !.old = TRUE]]
<1>1. /\ UNCHANGED <<env, reachable, lake, landing, expiring, held>> /\ ~landing.on
      /\ disk' = {[f EXCEPT !.old = TRUE] : f \in disk}
  BY DEF DayPasses
<1>2. \A f \in disk : /\ IsOnDisk(older[f]) /\ older[f].in = f.in /\ older[f].name = f.name
  <2> SUFFICES ASSUME NEW f \in disk
               PROVE  LET x == [f EXCEPT !.old = TRUE]
                      IN IsOnDisk(x) /\ x.in = f.in /\ x.name = f.name
    OBVIOUS
  <2> DEFINE yes == TRUE
  <2>1. yes \in BOOLEAN
    OBVIOUS
  <2>2. f = [in |-> f.in, name |-> f.name, old |-> f.old]
        /\ f.in \in DataPaths /\ f.name \in Nat \ {0}
    BY DEF IInv, DiskInv, IsOnDisk
  <2>3. [f EXCEPT !.old = TRUE] = [in |-> f.in, name |-> f.name, old |-> TRUE]
    <3>1. \A v : [f EXCEPT !.old = v] = [in |-> f.in, name |-> f.name, old |-> v]
      BY <2>2
    <3> QED
      BY <3>1
  <2>4. IsOnDisk([in |-> f.in, name |-> f.name, old |-> TRUE])
    BY <2>2 DEF IsOnDisk
  <2> QED
    BY <2>3, <2>4
<1>3. \A x : x \in disk' <=> \E f \in disk : x = older[f]
  BY <1>1
<1>4. IsFiniteSet(disk')
  <2>1. disk' = {older[f] : f \in disk}
    BY <1>1
  <2>2. older = [f \in disk |-> older[f]]
    OBVIOUS
  <2> HIDE DEF older
  <2> QED
    BY <2>1, <2>2, ImageIsFinite DEF IInv, DiskInv
<1> HIDE DEF older
<1>5. \A path, name : Has(disk, path, name) => Has(disk', path, name)
  BY <1>2, <1>3 DEF Has
<1>6. DiskInv'
  <2>1. \A x \in disk' : IsOnDisk(x)
    BY <1>2, <1>3
  <2>2. \A p \in Places : \A f \in lake'[p].files : f.name # 0 => Has(disk', Home(p)', f.name)
    BY <1>1, <1>5 DEF IInv, DiskInv, Home
  <2> QED
    BY <1>4, <2>1, <2>2 DEF DiskInv
<1>7. PlacesInv'
  BY <1>1 DEF IInv, PlacesInv, LivesAt
<1>8. HeldInv'
  BY <1>1, PlacesStay DEF IInv, HeldInv
<1>9. StepInv'
  <2>1. landing.name = 0
    BY <1>1 DEF IInv, StepInv
  <2>2. lake'[Catalog(env)] = lake[Catalog(env)] /\ expiring' \in {"no", "expired", "cleaned"}
    BY <1>1 DEF IInv, PlacesInv
  <2>3. /\ landing.on \/ expiring' # "no" => lake[Catalog(env)].is = "lake"
        /\ expiring' = "cleaned" => lake[Catalog(env)].scheduled = {}
    BY <1>1 DEF IInv, StepInv
  <2> QED
    BY <1>1, <2>1, <2>2, <2>3, OwnStep DEF IInv
<1> QED
  BY <1>6, <1>7, <1>8, <1>9 DEF IInv

LEMMA InitHasIt ==
  Init => IInv
<1> SUFFICES ASSUME Init PROVE IInv
  OBVIOUS
<1>1. /\ env \in Setups /\ reachable = TRUE /\ lake = [p \in Places |-> NoCatalog] /\ disk = {}
      /\ held = <<>> /\ landing = Idle /\ expiring = "no"
  BY DEF Init
<1>2. /\ \A p \in Places : lake[p] = NoCatalog
      /\ Sound(NoCatalog) /\ NoCatalog.is = "nothing" /\ NoCatalog.files = {}
  BY <1>1, NoCatalogIsSound
<1>3. PlacesInv
  BY <1>1, <1>2 DEF PlacesInv
<1>4. DiskInv
  BY <1>1, <1>2, FS_EmptySet DEF DiskInv
<1>5. Catalog(env) \in Places
  BY <1>3, OwnPlace
<1>6. HeldInv
  <2>1. TableVersions(NoCatalog, Weathers) = {}
    BY <1>2 DEF TableVersions
  <2> QED
    BY <1>1, <1>2, <1>5, <2>1 DEF HeldInv, IsHeld
<1>7. StepInv
  <2>1. /\ landing.name = 0 /\ landing.rows = {}
        /\ landing = [on |-> landing.on, cold |-> landing.cold, name |-> landing.name,
                      rows |-> landing.rows]
    BY <1>1 DEF Idle
  <2>2. ~landing.on /\ ~landing.cold
    BY <1>1 DEF Idle
  <2>3. landing.on = FALSE /\ landing.cold = FALSE
    BY <1>1 DEF Idle
  <2>4. landing.on \in BOOLEAN /\ landing.cold \in BOOLEAN
    BY <2>3
  <2> QED
    BY <1>1, <2>1, <2>2, <2>4 DEF StepInv
<1> QED
  BY <1>3, <1>4, <1>6, <1>7 DEF IInv

LEMMA NextKeepsIt ==
  IInv /\ [Next]_vars => IInv'
<1> SUFFICES ASSUME IInv, [Next]_vars PROVE IInv'
  OBVIOUS
<1>1. CASE DbtAttaches
  BY <1>1, DbtAttachesKeepsIt
<1>2. CASE PlanLoad
  BY <1>2, PlanLoadKeepsIt
<1>3. CASE Upload
  BY <1>3, UploadKeepsIt
<1>4. CASE Merge
  BY <1>4, MergeKeepsIt
<1>5. CASE LoadFails
  BY <1>5, LoadFailsKeepsIt
<1>6. CASE Replace
  BY <1>6, ReplaceKeepsIt
<1>7. CASE \E keep \in {1, 2} : StartExpiry(keep)
  BY <1>7, StartExpiryKeepsIt
<1>8. CASE Cleanup
  BY <1>8, CleanupKeepsIt
<1>9. CASE EndExpiry
  BY <1>9, EndExpiryKeepsIt
<1>10. CASE ExpiryFails
  BY <1>10, ExpiryFailsKeepsIt
<1>11. CASE FixtureRun
  BY <1>11, FixtureLoadKeepsIt, FixtureExpiresKeepsIt, DropFixtureSchemaKeepsIt DEF FixtureRun
<1>12. CASE CopyLake
  BY <1>12, CopyLakeKeepsIt
<1>13. CASE Relink
  BY <1>13, RelinkKeepsIt
<1>14. CASE CopyExpires
  BY <1>14, CopyExpiresKeepsIt
<1>15. CASE Publish
  BY <1>15, PublishKeepsIt
<1>16. CASE DayPasses
  BY <1>16, DayPassesKeepsIt
<1>17. CASE DatabaseGoesOrComes
  BY <1>17, DatabaseGoesOrComesKeepsIt
<1>18. CASE UNCHANGED vars
  <2>1. UNCHANGED <<env, reachable, lake, disk, landing, expiring, held>>
    BY <1>18 DEF vars
  <2>2. PlacesInv'
    BY <2>1 DEF IInv, PlacesInv, LivesAt
  <2>3. DiskInv'
    BY <2>1 DEF IInv, DiskInv, Home
  <2>4. StepInv' /\ HeldInv'
    <3>1. lake'[Catalog(env)] = lake[Catalog(env)]
          /\ \A x : x.in = DataPath(env) => (x \in disk' <=> x \in disk)
      BY <2>1
    <3> QED
      BY <2>1, <3>1, OthersStep DEF IInv
  <2> QED
    BY <2>2, <2>3, <2>4 DEF IInv
<1> QED
  BY <1>1, <1>2, <1>3, <1>4, <1>5, <1>6, <1>7, <1>8, <1>9, <1>10, <1>11, <1>12, <1>13, <1>14,
     <1>15, <1>16, <1>17, <1>18 DEF Next

\* The landing zone keeps its invariant: every change a kept snapshot shows is named there,
\* each catalog's files lie in its own data path, a load's file is awaited, and the last
\* two versions of the weather read as it was after the last two loads.
THEOREM InvariantHolds ==
  Spec => []IInv
<1> QED
  BY InitHasIt, NextKeepsIt, PTL DEF Spec

LEMMA IInvGivesTypeOK ==
  IInv => TypeOK
<1> SUFFICES ASSUME IInv PROVE TypeOK
  OBVIOUS
<1>1. env \in Setups /\ reachable \in BOOLEAN /\ expiring \in {"no", "expired", "cleaned"}
  BY DEF IInv, PlacesInv
<1>2. ASSUME NEW p \in Places
      PROVE  /\ lake[p].is \in {"nothing", "blank", "lake"}
             /\ lake[p].snaps \subseteq 1 .. lake[p].next - 1
             /\ \A f \in lake[p].files : /\ f.begin < lake[p].next
                                         /\ f.end = 0 \/ f.begin < f.end
  <2>1. Sound(lake[p])
    BY DEF IInv, PlacesInv
  <2> QED
    BY <2>1 DEF Sound, IsLake, Lineage, Changes
<1>3. \A f \in disk : f.old \in BOOLEAN
  BY DEF IInv, DiskInv, IsOnDisk
<1>4. Len(held) <= 2
  BY DEF IInv, HeldInv, IsHeld
<1> QED
  BY <1>1, <1>2, <1>3, <1>4 DEF TypeOK

LEMMA IInvGivesReadable ==
  IInv => ReadableIsOnDisk
<1> SUFFICES ASSUME IInv, NEW p \in Places, lake[p].path # <<"work">> \/ p[2] # "copy",
                    NEW f \in lake[p].files, f.name # 0
             PROVE  [in |-> lake[p].path, name |-> f.name] \in
                        {[in |-> d.in, name |-> d.name] : d \in disk}
  BY DEF ReadableIsOnDisk
<1>1. Has(disk, Home(p), f.name)
  BY DEF IInv, DiskInv
<1>2. lake[p].is = "lake" /\ env \in Setups
  BY DEF IInv, PlacesInv, Sound, IsLake
<1>3. Home(p) = lake[p].path
  <2>1. CASE p = Copies
    <3>1. lake[p].path = <<"copy">>
      BY <1>2, <2>1, PlacesAre, CatalogsAreApart DEF IInv, PlacesInv, LivesAt
    <3> QED
      BY <2>1, <3>1 DEF Home, HomeOf
  <2>2. CASE p # Copies
    BY <2>2 DEF Home, HomeOf
  <2> QED
    BY <2>1, <2>2
<1> QED
  BY <1>1, <1>3 DEF Has

LEMMA IInvGivesVersions ==
  IInv => VersionsAreTheChanges
<1> SUFFICES ASSUME IInv, NEW p \in Places, NEW table \in {"om_weather_daily", "owid_co2"},
                    NEW s \in lake[p].snaps
             PROVE  LET before == {v \in TableVersions(lake[p], table) : v <= s}
                    IN IF before = {} THEN Rows(lake[p], table, s) = {}
                       ELSE Rows(lake[p], table, s) = Rows(lake[p], table, Max(before))
  BY DEF VersionsAreTheChanges
<1>1. Sound(lake[p])
  BY DEF IInv, PlacesInv
<1> QED
  BY <1>1, VersionsNameTheChanges

\* SnapshotsStayReadable: whatever is written, expired, cleaned up, copied or lost on the
\* way, a snapshot that still exists finds its files and reads between two named versions
\* what it read before (ducklake.expire, lakehouse.expire, table_versions).
THEOREM SnapshotsAreReadable ==
  Spec => []SnapshotsStayReadable
<1>1. IInv => SnapshotsStayReadable
  BY IInvGivesTypeOK, IInvGivesReadable, IInvGivesVersions DEF SnapshotsStayReadable
<1> QED
  BY <1>1, InvariantHolds, PTL

\* A set of numbers has two members at least when it is not the set of its greatest.
LEMMA TwoAtLeast ==
  ASSUME NEW S \in SUBSET Nat, IsFiniteSet(S)
  PROVE  /\ Cardinality(S) \in Nat
         /\ S # {} => Cardinality(S) >= 1
         /\ S # {} /\ S # {Max(S)} => Cardinality(S) >= 2
<1>1. Cardinality(S) \in Nat
  BY FS_CardinalityType
<1>2. S # {} => Cardinality(S) # 0
  BY FS_EmptySet
<1>3. S # {} /\ S # {Max(S)} => Cardinality(S) # 1
  <2> SUFFICES ASSUME S # {}, Cardinality(S) = 1 PROVE S = {Max(S)}
    OBVIOUS
  <2>1. PICK x : S = {x}
    BY FS_Singleton
  <2>2. Max(S) \in S
    BY FiniteHasMax
  <2> QED
    BY <2>1, <2>2
<1> QED
  BY <1>1, <1>2, <1>3

LEMMA RevisionsAre ==
  ASSUME NEW c, NEW since, NEW until
  PROVE  Revisions(c, "om_weather_daily", since, until) = Shown(c, until) \ Shown(c, since)
BY DEF Revisions, Shown, Weathers

\* LastLoadsAreDiffable: what the asset check compares are the last two loads, and their
\* difference is what the second restated (revisions, weather_revisions_are_derivable).
THEOREM LoadsAreDiffable ==
  Spec => []LastLoadsAreDiffable
<1>1. ASSUME IInv PROVE LastLoadsAreDiffable
  <2> DEFINE c == lake[Catalog(env)]
  <2> DEFINE v == TableVersions(c, "om_weather_daily")
  <2>1. Sound(c) /\ IsHeld(c, held)
    BY <1>1, OwnPlace DEF IInv, HeldInv
  <2>2. v \in SUBSET Nat /\ IsFiniteSet(v)
    BY <2>1, VersionsAreSnaps
  <2>3. /\ held \in Seq(Held) /\ Len(held) \in Nat
        /\ (held = <<>> <=> Len(held) = 0) /\ (Len(held) = 0 \/ Len(held) = 1 \/ Len(held) = 2)
    BY <2>1, HeldAreFew
  <2>4. /\ held # <<>> => v # {} /\ Shown(c, Max(v)) = held[Len(held)]
        /\ Len(held) = 2 => v # {Max(v)} /\ Shown(c, OneBefore(v)) = held[1]
    BY <2>1 DEF IsHeld, Weathers
  <2> HIDE DEF c, v
  <2>5. /\ Cardinality(v) \in Nat /\ (v # {} => Cardinality(v) >= 1)
        /\ v # {} /\ v # {Max(v)} => Cardinality(v) >= 2
    BY <2>2, TwoAtLeast
  <2>6. Cardinality(v) >= Len(held)
    BY <2>3, <2>4, <2>5
  <2>7. ASSUME Len(held) = 2
        PROVE  /\ WeatherRevisions(c) = held[2] \ held[1]
               /\ Revisions(c, "om_weather_daily", Max(v), OneBefore(v)) = held[1] \ held[2]
    <3>1. Shown(c, Max(v)) = held[2] /\ Shown(c, OneBefore(v)) = held[1] /\ Cardinality(v) >= 2
      BY <2>3, <2>4, <2>5, <2>7
    <3>2. WeatherRevisions(c) = Revisions(c, "om_weather_daily", OneBefore(v), Max(v))
      BY <2>5, <3>1 DEF WeatherRevisions, v
    <3> QED
      BY <3>1, <3>2, RevisionsAre
  <2> QED
    BY <2>6, <2>7 DEF LastLoadsAreDiffable, c, v
<1> QED
  BY <1>1, InvariantHolds, PTL

\* ColdStartOnlyWhenEmpty: a load that fetches everything finds nothing loaded
\* (weather_watermark, is_catalog).
THEOREM ColdStartsFindNothing ==
  Spec => []ColdStartOnlyWhenEmpty
<1>1. IInv => ColdStartOnlyWhenEmpty
  BY DEF IInv, StepInv, ColdStartOnlyWhenEmpty
<1> QED
  BY <1>1, InvariantHolds, PTL

------------------------------------------------------------------------------
(* What a step may never do. *)

\* ExpiryLeavesNothing: an expiry that runs to its end leaves no file that nothing reads,
\* none waiting to be deleted and no old one that is not recorded (lakehouse.expire).
THEOREM ExpiryIsComplete ==
  Spec => ExpiryLeavesNothing
<1> DEFINE Left ==
      EndExpiry =>
        LET c == lake'[Catalog(env)] IN
        /\ \A f \in c.files : \E s \in c.snaps : Visible(f, s)
        /\ c.scheduled = {}
        /\ OnDisk(env) =>
             \A d \in disk' : d.in = DataPath(env) /\ d.old => \E f \in c.files : f.name = d.name
<1>1. IInv /\ [Next]_vars => [Left]_vars
  <2> SUFFICES ASSUME IInv, EndExpiry PROVE Left
    OBVIOUS
  <2> DEFINE c == lake[Catalog(env)]
  <2>1. lake' = lake /\ expiring = "cleaned" /\ disk' = disk \ Orphans(c, env)
    BY DEF EndExpiry
  <2>2. c.scheduled = {} /\ c.is = "lake"
    BY <2>1 DEF IInv, StepInv
  <2>3. Sound(c) /\ c.path = DataPath(env) /\ env \in Setups
    BY <2>2, OwnPlace DEF IInv
  <2>4. \A f \in c.files : \E s \in c.snaps : Visible(f, s)
    BY <2>3 DEF Sound, Lineage
  <2>5. ASSUME OnDisk(env), NEW d \in disk', d.in = DataPath(env), d.old
        PROVE  \E f \in c.files : f.name = d.name
    <3>1. DataPath(env) = <<"work">>
      BY <2>3, <2>5, Layout
    <3>2. <<"work">> \in DataPaths
      BY DEF DataPaths
    <3>3. IsPrefix(c.path, d.in)
      BY <2>3, <2>5, <3>1, <3>2, NothingBelow
    <3>4. d.name \in Recorded(c)
      BY <2>1, <2>5, <3>3 DEF Orphans, Under
    <3> QED
      BY <2>2, <3>4 DEF Recorded
  <2> HIDE DEF c
  <2> QED
    BY <2>1, <2>2, <2>4, <2>5 DEF c
<1> QED
  BY <1>1, InvariantHolds, PTL DEF Spec, ExpiryLeavesNothing

\* What a step does to a place and to the files of its data path.
Spares(place, path) ==
    /\ lake'[place] = lake[place]
    /\ \A name : Has(disk', path, name) <=> Has(disk, path, name)

LEMMA SparedFiles ==
  ASSUME NEW path, \A x : x.in = path => (x \in disk' <=> x \in disk)
  PROVE  \A name : Has(disk', path, name) <=> Has(disk, path, name)
BY DEF Has

LEMMA NamesSpared ==
  ASSUME NEW path, \A name : Has(disk', path, name) <=> Has(disk, path, name)
  PROVE  {f.name : f \in {x \in disk : x.in = path}} = {f.name : f \in {x \in disk' : x.in = path}}
BY DEF Has

\* A whole expiry takes files of its own path only.
LEMMA ExpiresSpares ==
  ASSUME IInv, NEW e, NEW keep, Expires(e, keep), Catalog(e) \in Places,
         OnDisk(e) => DataPath(e) \in {<<"tmp">>, <<"copy">>}, keep \in Nat \ {0},
         NEW p \in Places, p # Catalog(e), NEW path, path # DataPath(e)
  PROVE  Spares(p, path)
<1> DEFINE c == ExpiredTo(lake[Catalog(e)], keep)
<1> DEFINE d == [c EXCEPT !.scheduled = {}]
<1>1. /\ lake' = [lake EXCEPT ![Catalog(e)] = d] /\ disk' = Cleaned(c, disk) \ Orphans(d, e)
      /\ lake[Catalog(e)].is = "lake" /\ lake[Catalog(e)].path = DataPath(e)
  BY DEF Expires, IsCatalog, Attaches
<1>2. Sound(c) /\ c.path = DataPath(e)
  BY <1>1, ExpiredToIsSound DEF IInv, PlacesInv
<1> HIDE DEF c
<1>3. d.path = DataPath(e)
  BY <1>2, ClearedIsSound
<1> HIDE DEF d
<1>4. ASSUME NEW x, x.in = path
      PROVE  x \in disk' <=> x \in disk
  <2>1. ASSUME x \in disk, x \in Orphans(d, e)
        PROVE  FALSE
    <3>1. OnDisk(e) /\ IsPrefix(DataPath(e), x.in)
      BY <1>3, <2>1 DEF Orphans, Under
    <3>2. x.in \in DataPaths
      BY <2>1 DEF IInv, DiskInv, IsOnDisk
    <3>3. DataPath(e) = <<"tmp">> \/ DataPath(e) = <<"copy">>
      BY <3>1
    <3> QED
      BY <1>4, <3>1, <3>2, <3>3, NothingBelow
  <2>2. x \in Cleaned(c, disk) <=> x \in disk
    BY <1>2, <1>4 DEF Cleaned
  <2> QED
    BY <1>1, <2>1, <2>2
<1>5. lake'[p] = lake[p]
  BY <1>1 DEF IInv, PlacesInv
<1> QED
  BY <1>4, <1>5, SparedFiles DEF Spares

\* The fixture run spares the person's landing zone.
LEMMA FixtureRunSpares ==
  ASSUME IInv, FixtureRun
  PROVE  Spares(Catalog(env), DataPath(env))
<1> DEFINE e == FixtureEnv(env)
<1>1. /\ env \in Setups /\ Catalog(e) \in Places /\ Catalog(env) \in Places
      /\ Catalog(env) # Catalog(e) /\ DataPath(env) # DataPath(e)
  BY OwnPlace, CatalogsAreApart DEF IInv
<1>2. \A q \in Places : \A d :
        [lake EXCEPT ![Catalog(e)] = d][q] = IF q = Catalog(e) THEN d ELSE lake[q]
  BY DEF IInv, PlacesInv
<1>3. CASE FixtureLoad
  <2>1. PICK c, name : /\ lake' = [lake EXCEPT ![Catalog(e)] = c]
                       /\ disk' = disk \cup {Written(e, name)}
    BY <1>3 DEF FixtureLoad
  <2>2. Written(e, name).in = DataPath(e)
    BY DEF Written
  <2> HIDE DEF e
  <2>3. lake'[Catalog(env)] = lake[Catalog(env)]
    BY <1>1, <1>2, <2>1
  <2>4. \A x : x.in = DataPath(env) => (x \in disk' <=> x \in disk)
    BY <1>1, <2>1, <2>2
  <2> QED
    BY <2>3, <2>4, SparedFiles DEF Spares
<1>4. CASE FixtureExpires
  <2>1. Expires(e, 2)
    BY <1>4 DEF FixtureExpires
  <2>2. OnDisk(e) => DataPath(e) \in {<<"tmp">>, <<"copy">>}
    BY <1>1, Layout
  <2> HIDE DEF e
  <2> QED
    BY <1>1, <2>1, <2>2, ExpiresSpares
<1>5. CASE DropFixtureSchema
  <2>1. lake' = [lake EXCEPT ![Catalog(e)] = NoCatalog] /\ disk' = disk
    BY <1>5 DEF DropFixtureSchema
  <2>2. lake'[Catalog(env)] = lake[Catalog(env)]
    BY <1>1, <1>2, <2>1
  <2> QED
    BY <2>1, <2>2, SparedFiles DEF Spares
<1> QED
  BY <1>3, <1>4, <1>5 DEF FixtureRun

\* A step that touches the person's place and files only spares the fixture run's.
LEMMA OwnIsSpared ==
  ASSUME IInv, NEW d, lake' = [lake EXCEPT ![Catalog(env)] = d] \/ lake' = lake,
         \A x : x.in # DataPath(env) => (x \in disk' <=> x \in disk)
  PROVE  Spares(Catalog(FixtureEnv(env)), DataPath(FixtureEnv(env)))
<1> DEFINE e == FixtureEnv(env)
<1>1. /\ env \in Setups /\ Catalog(e) \in Places /\ Catalog(env) # Catalog(e)
      /\ DataPath(env) # DataPath(e)
  BY OwnPlace, CatalogsAreApart DEF IInv
<1> HIDE DEF e
<1>2. lake'[Catalog(e)] = lake[Catalog(e)]
  BY <1>1 DEF IInv, PlacesInv
<1>3. \A x : x.in = DataPath(e) => (x \in disk' <=> x \in disk)
  BY <1>1
<1> QED
  BY <1>2, <1>3, SparedFiles DEF Spares, e

\* Nothing else touches the fixture run's landing zone.
LEMMA OthersSpareTheFixture ==
  ASSUME IInv, [Next]_vars, ~FixtureRun
  PROVE  Spares(Catalog(FixtureEnv(env)), DataPath(FixtureEnv(env)))
<1> DEFINE e == FixtureEnv(env)
<1> DEFINE own == Catalog(env)
<1>1. /\ env \in Setups /\ Catalog(e) \in Places /\ Catalog(e) # Copies /\ Catalog(e) # Released
      /\ DataPath(e) # <<"copy">> /\ DataPath(e) # <<"release">>
      /\ Copies \in Places /\ Released \in Places
  BY OwnPlace, CatalogsAreApart, PlacesAre DEF IInv
<1>2. \A n : \A x : x.in # DataPath(env) =>
                      (x \in disk \cup {Written(env, n)} <=> x \in disk)
  BY DEF Written
<1>3. CASE UNCHANGED vars \/ PlanLoad \/ LoadFails \/ ExpiryFails \/ DatabaseGoesOrComes
  <2>1. lake' = lake /\ disk' = disk
    BY <1>3 DEF vars, PlanLoad, LoadFails, ExpiryFails, DatabaseGoesOrComes
  <2> QED
    BY <2>1, OwnIsSpared
<1>4. CASE DbtAttaches
  <2>1. lake' = [lake EXCEPT ![own] = [lake[own] EXCEPT !.is = "blank"]] /\ disk' = disk
    BY <1>4 DEF DbtAttaches
  <2> QED
    BY <2>1, OwnIsSpared
<1>5. CASE Upload
  <2>1. PICK n : disk' = disk \/ disk' = disk \cup {Written(env, n)}
    BY <1>5 DEF Upload
  <2>2. lake' = lake \/ lake' = [lake EXCEPT ![own] = NewCatalog(DataPath(env))]
    BY <1>5 DEF Upload
  <2>3. \A x : x.in # DataPath(env) => (x \in disk' <=> x \in disk)
    BY <1>2, <2>1
  <2> QED
    BY <2>2, <2>3, OwnIsSpared
<1>6. CASE Merge
  <2>1. PICK d : lake' = [lake EXCEPT ![own] = d]
    BY <1>6 DEF Merge
  <2>2. disk' = disk
    BY <1>6 DEF Merge
  <2> QED
    BY <2>1, <2>2, OwnIsSpared
<1>7. CASE Replace
  <2>1. /\ lake' = [lake EXCEPT ![own] = Replaced(lake[own], "owid_co2", FreshName)]
        /\ disk' = disk \cup {Written(env, FreshName)}
    BY <1>7 DEF Replace
  <2> QED
    BY <1>2, <2>1, OwnIsSpared
<1>8. CASE \E keep \in {1, 2} : StartExpiry(keep)
  <2>1. PICK keep \in {1, 2} : StartExpiry(keep)
    BY <1>8
  <2>2. lake' = [lake EXCEPT ![own] = ExpiredTo(lake[own], keep)] /\ disk' = disk
    BY <2>1 DEF StartExpiry
  <2> QED
    BY <2>2, OwnIsSpared
<1>9. CASE Cleanup \/ EndExpiry
  <2> DEFINE c == lake[own]
  <2>1. c.is = "lake"
    BY <1>9 DEF IInv, StepInv, Cleanup, EndExpiry
  <2>2. c.path = DataPath(env)
    BY <2>1, OwnPlace DEF IInv
  <2>3. CASE Cleanup
    <3>1. /\ lake' = [lake EXCEPT ![own] = [c EXCEPT !.scheduled = {}]]
          /\ disk' = Cleaned(c, disk)
      BY <2>3 DEF Cleanup
    <3>2. \A x : x.in # DataPath(env) => (x \in disk' <=> x \in disk)
      BY <2>2, <3>1 DEF Cleaned
    <3> QED
      BY <3>1, <3>2, OwnIsSpared
  <2>4. CASE EndExpiry
    <3>1. lake' = lake /\ disk' = disk \ Orphans(c, env)
      BY <2>4 DEF EndExpiry
    <3>2. ASSUME NEW x \in Orphans(c, env)
          PROVE  x.in = DataPath(env)
      <4>1. x \in disk /\ OnDisk(env) /\ IsPrefix(c.path, x.in)
        BY <3>2 DEF Orphans, Under
      <4>2. DataPath(env) = <<"work">>
        BY <1>1, <4>1, Layout
      <4>3. x.in \in DataPaths
        BY <4>1 DEF IInv, DiskInv, IsOnDisk
      <4> QED
        BY <2>2, <4>1, <4>2, <4>3, NothingBelow
    <3>3. \A x : x.in # DataPath(env) => (x \in disk' <=> x \in disk)
      BY <3>1, <3>2
    <3> QED
      BY <3>1, <3>3, OwnIsSpared
  <2> QED
    BY <1>9, <2>3, <2>4
<1>10. CASE CopyLake
  <2>1. /\ lake' = [lake EXCEPT ![Copies] = lake[own]]
        /\ disk' = disk \cup {[f EXCEPT !.in = <<"copy">>] : f \in Under(DataPath(env))}
    BY <1>10, CopyLayout DEF CopyLake
  <2>2. \A f \in Under(DataPath(env)) : [f EXCEPT !.in = <<"copy">>].in = <<"copy">>
    BY DEF IInv, DiskInv, IsOnDisk, Under
  <2> HIDE DEF e, own
  <2>3. \A x : x.in = DataPath(e) => (x \in disk' <=> x \in disk)
    BY <1>1, <2>1, <2>2
  <2>4. lake'[Catalog(e)] = lake[Catalog(e)]
    BY <1>1, <2>1 DEF IInv, PlacesInv
  <2> QED
    BY <2>3, <2>4, SparedFiles DEF Spares, e
<1>11. CASE Relink
  <2>1. lake' = [lake EXCEPT ![Copies].path = <<"copy">>] /\ disk' = disk
    BY <1>11, CopyLayout DEF Relink
  <2> HIDE DEF e
  <2>2. lake'[Catalog(e)] = lake[Catalog(e)]
    BY <1>1, <2>1 DEF IInv, PlacesInv
  <2> QED
    BY <2>1, <2>2, SparedFiles DEF Spares, e
<1>12. CASE CopyExpires
  <2>1. Expires(CopyEnv, 1)
    BY <1>12 DEF CopyExpires
  <2> HIDE DEF e
  <2>2. /\ Catalog(CopyEnv) \in Places /\ Catalog(e) # Catalog(CopyEnv)
        /\ DataPath(e) # DataPath(CopyEnv)
        /\ (OnDisk(CopyEnv) => DataPath(CopyEnv) \in {<<"tmp">>, <<"copy">>})
    BY <1>1, CopyLayout
  <2>3. Spares(Catalog(e), DataPath(e))
    BY <1>1, <2>1, <2>2, ExpiresSpares
  <2> QED
    BY <2>3 DEF e
<1>13. CASE Publish
  <2>1. PICK d, built : /\ lake' = [lake EXCEPT ![Released] = d]
                        /\ disk' = {f \in disk : f.in # <<"release">>} \cup
                                     {[in |-> <<"release">>, name |-> f.name, old |-> FALSE] :
                                        f \in built}
    BY <1>13 DEF Publish, Released
  <2> HIDE DEF e
  <2>2. lake'[Catalog(e)] = lake[Catalog(e)]
    BY <1>1, <2>1 DEF IInv, PlacesInv
  <2> DEFINE path == <<"release">>
  <2> DEFINE more == {[in |-> path, name |-> f.name, old |-> FALSE] : f \in built}
  <2>3. \A x \in more : x.in = path
    OBVIOUS
  <2>4. disk' = {f \in disk : f.in # path} \cup more /\ DataPath(e) # path
    BY <1>1, <2>1
  <2> HIDE DEF path, more
  <2>5. \A x : x.in = DataPath(e) => (x \in disk' <=> x \in disk)
    BY <2>3, <2>4
  <2> QED
    BY <2>2, <2>5, SparedFiles DEF Spares, e
<1>14. CASE DayPasses
  <2>1. lake' = lake /\ disk' = {[f EXCEPT !.old = TRUE] : f \in disk}
    BY <1>14 DEF DayPasses
  <2>2. \A f \in disk : [f EXCEPT !.old = TRUE].in = f.in /\ [f EXCEPT !.old = TRUE].name = f.name
    BY DEF IInv, DiskInv, IsOnDisk
  <2> DEFINE older == [f \in disk |-> [f EXCEPT !.old = TRUE]]
  <2>4. \A x : x \in disk' <=> \E f \in disk : x = older[f]
    BY <2>1
  <2>5. \A f \in disk : older[f].in = f.in /\ older[f].name = f.name
    BY <2>2
  <2> HIDE DEF older
  <2>3. \A path, name : Has(disk', path, name) <=> Has(disk, path, name)
    BY <2>4, <2>5 DEF Has
  <2> QED
    BY <2>1, <2>3 DEF Spares
<1> QED
  BY <1>3, <1>4, <1>5, <1>6, <1>7, <1>8, <1>9, <1>10, <1>11, <1>12, <1>13, <1>14 DEF Next

\* A published catalog shows the latest rows of the weather and no others.
LEMMA PublishedShowsTheLatest ==
  ASSUME NEW c, NEW name \in Nat
  PROVE  LET d == Published(c, name)
             Read(s) == UNION {f.rows : f \in {x \in d.files : Visible(x, s)}}
             now == {<<r.day, r.value>> : r \in Weather(c)}
         IN (\A s \in d.snaps : Read(s) \subseteq now) /\ Read(Latest(d)) = now
<1> DEFINE new == NewCatalog(<<"release">>)
<1> DEFINE now == {<<r.day, r.value>> : r \in Weather(c)}
<1> DEFINE become == [f \in {} |-> f]
<1> DEFINE file == File(new, Weathers, name, now)
<1> DEFINE d == Published(c, name)
<1> DEFINE Read(s) == UNION {f.rows : f \in {x \in d.files : Visible(x, s)}}
<1>1. new.files = {} /\ new.snaps = {} /\ new.next = 1
  BY NewCatalogIsSound
<1>2. (d = new /\ \A f \in c.files : f.table # Weathers) \/ Commits(new, d, file, become)
  BY PublishedIs
<1>3. file.rows = now /\ file.begin = new.next /\ file.end = 0
  BY DEF File
<1> HIDE DEF new, file, d, become
<1>4. CASE d = new /\ \A f \in c.files : f.table # Weathers
  <2>1. Weather(c) = {}
    BY <1>4 DEF Weather, Rows, Weathers
  <2>2. now = {} /\ \A s : Read(s) = {}
    BY <1>1, <1>4, <2>1
  <2> QED
    BY <1>1, <1>4, <2>2 DEF d
<1>5. CASE Commits(new, d, file, become)
  <2>1. d.files = {file} /\ d.snaps = {1}
    BY <1>1, <1>5 DEF Commits
  <2>2. Max({1}) = 1
    BY MaxIs
  <2>3. Latest(d) = 1
    BY <2>1, <2>2 DEF Latest
  <2>4. Visible(file, 1)
    BY <1>1, <1>3 DEF Visible
  <2>5. Read(1) = now
    <3>1. {x \in d.files : Visible(x, 1)} = {file}
      BY <2>1, <2>4
    <3> HIDE DEF now
    <3> QED
      BY <1>3, <3>1
  <2> HIDE DEF now
  <2> QED
    BY <2>1, <2>3, <2>5 DEF now, d
<1> QED
  BY <1>2, <1>4, <1>5

\* CopiesKeepApart: a fixture run changes nothing of the person's landing zone and nothing
\* else changes the fixture run's, and a release shows the latest rows and no others
\* (just test-pipeline, drop_fixture_schema, ducklake.publish).
THEOREM CopiesStayApart ==
  Spec => CopiesKeepApart
<1>1. ASSUME IInv, [Next]_vars
      PROVE  FixtureKeepsApart
  <2>1. CASE FixtureRun
    <3>1. Spares(Catalog(env), DataPath(env))
      BY <1>1, <2>1, FixtureRunSpares
    <3> QED
      BY <2>1, <3>1, NamesSpared DEF FixtureKeepsApart, Spares
  <2>2. CASE ~FixtureRun
    <3>1. Spares(Catalog(FixtureEnv(env)), DataPath(FixtureEnv(env)))
      BY <1>1, <2>2, OthersSpareTheFixture
    <3> QED
      BY <2>2, <3>1, NamesSpared DEF FixtureKeepsApart, Spares
  <2> QED
    BY <2>1, <2>2
<1>2. ASSUME IInv
      PROVE  PublishedHoldsOnlyTheLatest
  <2> SUFFICES ASSUME Publish PROVE PublishedHoldsOnlyTheLatest
    BY DEF PublishedHoldsOnlyTheLatest
  <2> DEFINE c == lake[Catalog(env)]
  <2> DEFINE d == Published(c, FreshName)
  <2>1. lake' = [lake EXCEPT ![<<"file", "release">>] = d] /\ <<"file", "release">> \in Places
    BY PlacesAre DEF Publish, Released
  <2>2. lake'[<<"file", "release">>] = d
    BY <1>2, <2>1 DEF IInv, PlacesInv
  <2>3. FreshName \in Nat
    BY <1>2, FreshNameIsFresh DEF IInv
  <2>4. LET Read(s) == UNION {f.rows : f \in {x \in d.files : Visible(x, s)}}
            now == {<<r.day, r.value>> : r \in Weather(c)}
        IN (\A s \in d.snaps : Read(s) \subseteq now) /\ Read(Latest(d)) = now
    BY <2>3, PublishedShowsTheLatest
  <2> HIDE DEF d
  <2> QED
    BY <2>2, <2>4 DEF PublishedHoldsOnlyTheLatest
<1>3. IInv /\ [Next]_vars => [FixtureKeepsApart /\ PublishedHoldsOnlyTheLatest]_vars
  BY <1>1, <1>2
<1> QED
  BY <1>3, InvariantHolds, PTL DEF Spec, CopiesKeepApart
==============================================================================
