---------------------------- MODULE WdiIngestProofs ----------------------------
(***************************************************************************)
(* What the World Bank's loads leave, for any indicators, horizons, years, *)
(* page sizes and lookback, however its caches, its errors and its         *)
(* revisions meet the requests.                                            *)
(***************************************************************************)
EXTENDS WdiIngest, TLAPS, FiniteSetTheorems

\* The rows and requests there can be.
Row == [edition : Nat, coded : BOOLEAN]
RowSets == UNION {[S -> Row] : S \in SUBSET Calendar}
Request == [state : {"asking", "got", "raised"}, per : {PerPage, StalePerPage}, page : Nat \ {0},
            tries : 0 .. Retries - 1, metas : SUBSET (1 .. MaxEditions), rows : RowSets]
Range2 == {y \in Nat \X Nat : FirstYear <= y[1] /\ y[1] <= y[2] /\ y[2] <= LastYear}

TypeInv ==
    /\ today \in StartYear .. LastYear /\ edition \in [Codes -> 1 .. MaxEditions]
    /\ table \in [Codes -> RowSets]
    /\ marks \in [Codes -> 0 .. today] /\ advanced \in [Codes -> 0 .. today]
    /\ load \in [years : {<<>>} \cup Range2, drop : BOOLEAN]
    /\ fetch \in [Codes -> Request]
    /\ pc \in {"idle", "extract"} /\ yielded \in 0 .. Len(Order)
    /\ loads \in 0 .. MaxLoads /\ troubles \in 0 .. MaxTroubles

\* A running load: a range lies in the past and drops nothing, and a thread has the rows
\* of the pages before the one it asks for, each of an edition its pages named.
LoadIsSound ==
    /\ load.drop => load.years = <<>>
    /\ load.years # <<>> => load.years[2] <= today

RowsAreOf(f) ==
    \A y \in DOMAIN f.rows : f.rows[y].edition \in f.metas

PagesSoFar(c, f) ==
    f.state = "asking" => /\ f.page <= Pages(c, f.per)
                          /\ \A y \in Calendar : y \in DOMAIN f.rows <=>
                                y \in Window(c) /\ y < Min(Window(c)) + (f.page - 1) * f.per

GotIsWhole(c, f) == f.state = "got" => DOMAIN f.rows = Window(c) /\ Complete(f)

Sound(c, f) == RowsAreOf(f) /\ PagesSoFar(c, f) /\ GotIsWhole(c, f)

\* What the table will hold of a code's years when its rows are merged.
WillHold(c) ==
    (IF load.drop THEN {} ELSE DOMAIN table[c])
        \cup (IF fetch[c].state = "got" THEN DOMAIN fetch[c].rows ELSE {})

FetchInv ==
    pc = "extract" =>
        /\ LoadIsSound
        /\ \A c \in Codes : Sound(c, fetch[c])
        /\ \A c \in Codes : FirstYear .. advanced[c] \subseteq WillHold(c)
        /\ \A i \in 1 .. yielded : fetch[Order[i]].state = "got"

IdleInv == pc = "idle" => fetch = [c \in Codes |-> NoRequest] /\ yielded = 0

MarksInv == \A c \in Codes : FirstYear .. marks[c] \subseteq DOMAIN table[c]

IInv == TypeInv /\ FetchInv /\ IdleInv /\ MarksInv

-----------------------------------------------------------------------------
(* Numbers and sets of years. *)

LEMMA MinOfRange ==
    ASSUME NEW a \in Int, NEW b \in Int, a <= b
    PROVE  Min(a .. b) = a
<1>1. a \in a .. b /\ \A y \in a .. b : a =< y
  OBVIOUS
<1>2. \A x \in a .. b : (\A y \in a .. b : x =< y) => x = a
  BY <1>1
<1> QED
  BY <1>1, <1>2 DEF Min

\* The greatest of two.
LEMMA MaxOfTwo ==
    ASSUME NEW a \in Int, NEW b \in Int
    PROVE  Max({a, b}) = IF a >= b THEN a ELSE b
<1> DEFINE m == IF a >= b THEN a ELSE b
<1>1. m \in {a, b} /\ \A y \in {a, b} : m >= y
  OBVIOUS
<1>2. \A x \in {a, b} : (\A y \in {a, b} : x >= y) => x = m
  BY <1>1
<1> QED
  BY <1>1, <1>2 DEF Max

\* Enough pages for n years, and at least one for one.
LEMMA EnoughPages ==
    ASSUME NEW n \in Nat \ {0}, NEW per \in Nat \ {0}
    PROVE  /\ (n + per - 1) \div per \in Nat \ {0}
           /\ ((n + per - 1) \div per) * per >= n
<1>1. (n + per - 1) \div per \in Int /\ (n + per - 1) % per \in 0 .. per - 1
  OBVIOUS
<1>2. n + per - 1 = per * ((n + per - 1) \div per) + ((n + per - 1) % per)
  OBVIOUS
<1> DEFINE q == (n + per - 1) \div per  r == (n + per - 1) % per
<1>3. per * q >= n
  BY <1>1, <1>2
<1>4. q >= 1
  <2> SUFFICES ASSUME q <= 0 PROVE FALSE
    BY <1>1
  <2>1. per * q <= 0
    BY <1>1
  <2> QED
    BY <1>3, <2>1
<1>5. q * per = per * q
  BY <1>1
<1> QED
  BY <1>1, <1>3, <1>4, <1>5

LEMMA OrderIsOfCodes ==
    /\ Len(Order) \in Nat /\ DOMAIN Order = 1 .. Len(Order)
    /\ \A i \in 1 .. Len(Order) : Order[i] \in Codes
    /\ \A c \in Codes : \E i \in 1 .. Len(Order) : c = Order[i]
BY WdiAssumption DEF Codes

\* What a request asks for is a range of years that is not empty and has rows.
LEMMA WindowIsARange ==
    ASSUME TypeInv, LoadIsSound, NEW c \in Codes
    PROVE  \E a \in FirstYear .. LastYear, b \in FirstYear .. LastYear + Ahead :
              /\ a <= b /\ Window(c) = a .. b
              /\ (load.years = <<>> /\ (load.drop \/ marks[c] = 0)) => a = FirstYear /\ b = today + Ahead
              /\ (load.years = <<>> /\ ~load.drop /\ marks[c] # 0) =>
                     a = StartOf(marks[c]) /\ b = today /\ (a = FirstYear \/ a <= marks[c] + 1)
<1>0. /\ FirstYear \in Nat \ {0} /\ LastYear \in Nat /\ Ahead \in Nat /\ Lookback \in Nat \ {0}
      /\ today \in FirstYear .. LastYear /\ marks[c] \in 0 .. today
      /\ load.years = <<>> \/ load.years \in Range2
  BY WdiAssumption DEF TypeInv
<1>1. CASE load.years # <<>>
  <2>1. load.years \in Nat \X Nat /\ FirstYear <= load.years[1]
        /\ load.years[1] <= load.years[2] /\ load.years[2] <= LastYear
    BY <1>0, <1>1 DEF Range2
  <2>2. load.years[1] \in FirstYear .. LastYear /\ load.years[2] \in FirstYear .. LastYear + Ahead
    BY <1>0, <2>1
  <2>3. Window(c) = load.years[1] .. load.years[2]
    BY <1>1 DEF Window
  <2> QED
    BY <1>1, <2>1, <2>2, <2>3
<1>2. CASE load.years = <<>> /\ (load.drop \/ marks[c] = 0)
  <2>1. Window(c) = FirstYear .. today + Ahead
    BY <1>2 DEF Window
  <2>2. FirstYear \in FirstYear .. LastYear /\ today + Ahead \in FirstYear .. LastYear + Ahead
        /\ FirstYear <= today + Ahead
    BY <1>0
  <2> QED
    BY <1>2, <2>1, <2>2
<1>3. CASE load.years = <<>> /\ ~load.drop /\ marks[c] # 0
  <2> DEFINE s == StartOf(marks[c])
  <2>1. s = IF FirstYear >= marks[c] - Lookback + 1 THEN FirstYear ELSE marks[c] - Lookback + 1
    BY <1>0, <1>3, MaxOfTwo DEF StartOf
  <2> HIDE DEF s
  <2>2. s \in FirstYear .. today /\ ~(s > today) /\ (s = FirstYear \/ s <= marks[c] + 1)
    BY <1>0, <1>3, <2>1
  <2>3. Window(c) = s .. today
    BY <1>3, <2>2 DEF Window, s
  <2>4. s \in FirstYear .. LastYear /\ today \in FirstYear .. LastYear + Ahead /\ s <= today
    BY <1>0, <2>2
  <2> QED
    BY <1>3, <2>2, <2>3, <2>4 DEF s
<1> QED
  BY <1>1, <1>2, <1>3

\* A window is part of the calendar, and its first year the least of it.
LEMMA WindowShape ==
    ASSUME TypeInv, LoadIsSound, NEW c \in Codes
    PROVE  /\ Window(c) \subseteq Calendar /\ Window(c) # {}
           /\ Min(Window(c)) \in Window(c) /\ Min(Window(c)) \in Nat
           /\ Cardinality(Window(c)) \in Nat \ {0}
           /\ \A y \in Window(c) : y \in Nat /\ Min(Window(c)) <= y
                                   /\ y < Min(Window(c)) + Cardinality(Window(c))
<1>1. PICK a \in FirstYear .. LastYear, b \in FirstYear .. LastYear + Ahead :
         a <= b /\ Window(c) = a .. b
  BY WindowIsARange
<1>2. FirstYear \in Nat /\ LastYear \in Nat /\ Ahead \in Nat
  BY WdiAssumption
<1>3. a \in Nat /\ b \in Nat /\ a .. b \subseteq Calendar
  BY <1>1, <1>2 DEF Calendar
<1>4. Min(a .. b) = a /\ Cardinality(a .. b) = b - a + 1
  BY <1>1, <1>3, MinOfRange, FS_Interval
<1> QED
  BY <1>1, <1>3, <1>4

LEMMA NoRequestIsOne ==
    /\ NoRequest \in Request /\ NoRequest.state = "asking" /\ NoRequest.page = 1
    /\ NoRequest.metas = {} /\ DOMAIN NoRequest.rows = {}
    /\ [NoRequest EXCEPT !.per = StalePerPage] \in Request
    /\ [NoRequest EXCEPT !.per = StalePerPage].state = "asking"
    /\ [NoRequest EXCEPT !.per = StalePerPage].page = 1
    /\ DOMAIN [NoRequest EXCEPT !.per = StalePerPage].rows = {}
<1>1. DOMAIN <<>> = {} /\ <<>> \in [{} -> Row]
  OBVIOUS
<1>2. <<>> \in RowSets
  BY <1>1 DEF RowSets
<1>3. Retries \in Nat \ {0} /\ 0 \in 0 .. Retries - 1
  BY WdiAssumption
<1>4. NoRequest \in Request
  BY <1>2, <1>3 DEF NoRequest, Request
<1> QED
  BY <1>1, <1>4 DEF NoRequest, Request

\* A request that has no rows yet is where every request starts.
LEMMA FreshIsSound ==
    ASSUME TypeInv, LoadIsSound, NEW c \in Codes, NEW f \in Request,
           f.page = 1, DOMAIN f.rows = {}, f.state = "asking"
    PROVE  Sound(c, f)
<1>1. f.per \in Nat \ {0}
  BY WdiAssumption DEF Request
<1>2. f.page <= Pages(c, f.per)
  BY <1>1, WindowShape, EnoughPages DEF Pages
<1>3. \A y \in Calendar : ~(y \in Window(c) /\ y < Min(Window(c)) + (f.page - 1) * f.per)
  BY <1>1, WindowShape
<1> QED
  BY <1>2, <1>3 DEF Sound, RowsAreOf, PagesSoFar, GotIsWhole

\* So in every state of the right shape.
LEMMA NoRequestIsSound ==
    TypeInv /\ LoadIsSound => \A c \in Codes : Sound(c, NoRequest)
BY FreshIsSound, NoRequestIsOne

LEMMA NoRequestIsSoundNext ==
    (TypeInv /\ LoadIsSound => \A c \in Codes : Sound(c, NoRequest))'
BY NoRequestIsSound, PTL

\* A request after a page of edition e, whose years all have this row.
PageMore(c, f, e, row) ==
    LET got == [y \in PageYears(c, f.per, f.page) |-> row]
        rows == [y \in DOMAIN f.rows \cup DOMAIN got |->
                   IF y \in DOMAIN got THEN got[y] ELSE f.rows[y]]
        more == [f EXCEPT !.metas = @ \cup {e}, !.rows = rows, !.tries = 0]
    IN IF f.page < Pages(c, f.per) THEN [more EXCEPT !.page = @ + 1] ELSE Judged(more)

\* A page more leaves a request sound, and Judged passes on only what is whole.
LEMMA PageIsSound ==
    ASSUME TypeInv, LoadIsSound, NEW c \in Codes, NEW f \in Request, Sound(c, f), f.state = "asking",
           NEW e \in 1 .. edition[c], NEW row \in Row, row.edition = e
    PROVE  PageMore(c, f, e, row) \in Request /\ Sound(c, PageMore(c, f, e, row))
<1> DEFINE got == [y \in PageYears(c, f.per, f.page) |-> row]
           rows == [y \in DOMAIN f.rows \cup DOMAIN got |->
                      IF y \in DOMAIN got THEN got[y] ELSE f.rows[y]]
           more == [f EXCEPT !.metas = @ \cup {e}, !.rows = rows, !.tries = 0]
           next == IF f.page < Pages(c, f.per) THEN [more EXCEPT !.page = @ + 1] ELSE Judged(more)
           m == Min(Window(c))
           n == Cardinality(Window(c))
           k == (f.page - 1) * f.per
<1> SUFFICES next \in Request /\ Sound(c, next)
  BY DEF PageMore
<1>0. edition[c] \in 1 .. MaxEditions
  BY DEF TypeInv
<1>1. /\ f.per \in Nat \ {0} /\ f.page \in Nat \ {0} /\ f.metas \subseteq 1 .. MaxEditions
      /\ e \in 1 .. MaxEditions /\ MaxEditions \in Nat
  <2>1. f.per \in {PerPage, StalePerPage} /\ f.page \in Nat \ {0} /\ f.metas \subseteq 1 .. MaxEditions
    BY DEF Request
  <2>2. PerPage \in Nat \ {0} /\ StalePerPage \in Nat \ {0} /\ MaxEditions \in Nat
    BY WdiAssumption
  <2> QED
    BY <1>0, <2>1, <2>2
<1>2. /\ Window(c) \subseteq Calendar /\ m \in Nat /\ n \in Nat \ {0}
      /\ \A y \in Window(c) : y \in Nat /\ m <= y /\ y < m + n
  BY WindowShape
<1>3. /\ k \in Nat /\ f.page * f.per = k + f.per
      /\ ((f.page + 1) - 1) * f.per = k + f.per
  BY <1>1
<1>4. \A y \in Calendar : y \in DOMAIN f.rows <=> y \in Window(c) /\ y < m + k
  BY DEF Sound, PagesSoFar
<1>5. DOMAIN f.rows \subseteq Calendar /\ f.rows \in [DOMAIN f.rows -> Row]
  BY DEF Request, RowSets
<1>6. \A y : y \in PageYears(c, f.per, f.page) <=> y \in Window(c) /\ m + k <= y /\ y < m + (k + f.per)
  <2> HIDE DEF k, m
  <2>1. (f.page - 1) * f.per = k /\ Min(Window(c)) = m
    BY DEF k, m
  <2> QED
    BY <1>1, <1>2, <1>3, <2>1 DEF PageYears
<1>7. DOMAIN rows = DOMAIN f.rows \cup PageYears(c, f.per, f.page)
  OBVIOUS
<1>8. /\ DOMAIN rows \subseteq Calendar
      /\ \A y \in Calendar : y \in DOMAIN rows <=> y \in Window(c) /\ y < m + (k + f.per)
  <2> HIDE DEF k, m, rows
  <2> QED
    BY <1>1, <1>2, <1>3, <1>4, <1>5, <1>6, <1>7
<1>10. rows \in RowSets
  <2>1. rows \in [DOMAIN rows -> Row]
    BY <1>5
  <2> QED
    BY <1>8, <2>1 DEF RowSets
<1>11. /\ more \in Request /\ more.rows = rows /\ more.metas = f.metas \cup {e} /\ more.per = f.per
       /\ more.page = f.page /\ more.state = "asking"
  <2> HIDE DEF rows
  <2>1. 0 \in 0 .. Retries - 1
    BY WdiAssumption
  <2> QED
    BY <1>1, <1>10, <2>1 DEF Request
<1>12. RowsAreOf(more)
  <2>1. ASSUME NEW y \in DOMAIN rows
        PROVE  rows[y].edition \in f.metas \cup {e}
    <3>1. CASE y \in PageYears(c, f.per, f.page)
      BY <3>1
    <3>2. CASE y \notin PageYears(c, f.per, f.page)
      BY <2>1, <3>2 DEF Sound, RowsAreOf
    <3> QED
      BY <3>1, <3>2
  <2> HIDE DEF rows, more
  <2> QED
    BY <1>11, <2>1 DEF RowsAreOf
<1> HIDE DEF rows, more
<1>13. CASE f.page < Pages(c, f.per)
  <2>1. /\ next \in Request /\ next.rows = rows /\ next.metas = more.metas /\ next.per = f.per
        /\ next.page = f.page + 1 /\ next.state = "asking"
    BY <1>1, <1>11, <1>13 DEF Request
  <2>2. Pages(c, f.per) \in Nat
    BY <1>1, <1>2, EnoughPages DEF Pages
  <2>3. PagesSoFar(c, next)
    <3> HIDE DEF next, k, m
    <3>1. (next.page - 1) * next.per = k + f.per /\ Min(Window(c)) = m
      BY <1>3, <2>1 DEF m
    <3> QED
      BY <1>1, <1>8, <1>13, <2>1, <2>2, <3>1 DEF PagesSoFar
  <2>4. RowsAreOf(next)
    <3> HIDE DEF next
    <3> QED
      BY <1>11, <1>12, <2>1 DEF RowsAreOf
  <2> HIDE DEF next
  <2> QED
    BY <2>1, <2>3, <2>4 DEF Sound, GotIsWhole
<1>14. CASE ~(f.page < Pages(c, f.per))
  <2>1. next = Judged(more)
    BY <1>14
  <2>2. DOMAIN rows = Window(c)
    <3>1. Pages(c, f.per) \in Nat /\ Pages(c, f.per) * f.per >= n /\ f.page <= Pages(c, f.per)
      BY <1>1, <1>2, EnoughPages DEF Pages, Sound, PagesSoFar
    <3>2. f.page = Pages(c, f.per)
      BY <1>1, <1>14, <3>1
    <3>3. k + f.per >= n
      BY <1>3, <3>1, <3>2
    <3> HIDE DEF k, m, n
    <3>4. \A y \in Window(c) : y \in Calendar /\ y < m + (k + f.per)
      BY <1>1, <1>2, <1>3, <3>3
    <3> QED
      BY <1>8, <3>4
  <2>3. CASE Complete(more)
    <3>1. next = [more EXCEPT !.state = "got"]
      BY <2>1, <2>3 DEF Judged
    <3>2. /\ next \in Request /\ next.rows = rows /\ next.metas = more.metas /\ next.state = "got"
      BY <1>11, <3>1 DEF Request
    <3>3. Complete(next)
      BY <1>11, <2>3, <3>2 DEF Complete, MixedEditions, IsStale
    <3> HIDE DEF next
    <3> QED
      BY <1>11, <1>12, <2>2, <3>2, <3>3 DEF Sound, RowsAreOf, PagesSoFar, GotIsWhole
  <2>4. CASE ~Complete(more) /\ more.per = PerPage
    <3>1. next = [NoRequest EXCEPT !.per = StalePerPage]
      BY <2>1, <2>4 DEF Judged
    <3> HIDE DEF next
    <3> QED
      BY <3>1, NoRequestIsOne, FreshIsSound
  <2>5. CASE ~Complete(more) /\ more.per # PerPage
    <3>1. next = [more EXCEPT !.state = "raised"]
      BY <2>1, <2>5 DEF Judged
    <3>2. /\ next \in Request /\ next.rows = rows /\ next.metas = more.metas /\ next.state = "raised"
      BY <1>11, <3>1 DEF Request
    <3> HIDE DEF next
    <3> QED
      BY <1>11, <1>12, <3>2 DEF Sound, RowsAreOf, PagesSoFar, GotIsWhole
  <2> QED
    BY <2>3, <2>4, <2>5
<1> QED
  BY <1>13, <1>14 DEF more, rows

\* While a load runs on, a request that is sound now is sound in the next state.
LEMMA SoundStays ==
    ASSUME NEW c, load' = load, marks' = marks, today' = today, Sound(c, fetch'[c])
    PROVE  Sound(c, fetch[c])'
<1>1. Window(c)' = Window(c)
  BY DEF Window, StartOf
<1>2. Pages(c, fetch[c].per)' = Pages(c, fetch'[c].per)
  BY <1>1 DEF Pages
<1>3. Complete(fetch[c])' = Complete(fetch'[c])
  BY DEF Complete, MixedEditions, IsStale
<1>4. RowsAreOf(fetch[c])'
  BY DEF Sound, RowsAreOf
<1>5. PagesSoFar(c, fetch[c])'
  BY <1>1, <1>2 DEF Sound, PagesSoFar
<1>6. GotIsWhole(c, fetch[c])'
  BY <1>1, <1>3 DEF Sound, GotIsWhole
<1> QED
  BY <1>4, <1>5, <1>6 DEF Sound

\* A routine load moves a watermark to a year no later than this one, and whatever it asked
\* for, the years up to this one are then in the table.
LEMMA ObservedIsHeld ==
    ASSUME TypeInv, LoadIsSound, MarksInv, NEW c \in Codes, MovesTheMark,
           NEW rows, DOMAIN rows = Window(c), FirstYear .. advanced[c] \subseteq WillHold(c)
    PROVE  /\ Observed(c, rows) \in 0 .. today
           /\ FirstYear .. today \subseteq (IF load.drop THEN {} ELSE DOMAIN table[c]) \cup Window(c)
<1>0. /\ FirstYear \in Nat \ {0} /\ LastYear \in Nat /\ Ahead \in Nat /\ Horizon[c] \in Int
      /\ today \in FirstYear .. LastYear /\ marks[c] \in 0 .. today /\ advanced[c] \in 0 .. today
      /\ load.years = <<>>
  BY WdiAssumption DEF TypeInv, MovesTheMark
<1>1. PICK a \in FirstYear .. LastYear, b \in FirstYear .. LastYear + Ahead :
         /\ a <= b /\ Window(c) = a .. b
         /\ (load.drop \/ marks[c] = 0) => a = FirstYear /\ b = today + Ahead
         /\ (~load.drop /\ marks[c] # 0) => b = today /\ (a = FirstYear \/ a <= marks[c] + 1)
  BY <1>0, WindowIsARange
<1>2. FirstYear .. today \subseteq (IF load.drop THEN {} ELSE DOMAIN table[c]) \cup Window(c)
  <2>1. CASE load.drop \/ marks[c] = 0
    BY <1>0, <1>1, <2>1
  <2>2. CASE ~load.drop /\ marks[c] # 0
    BY <1>0, <1>1, <2>2 DEF MarksInv
  <2> QED
    BY <2>1, <2>2
<1>3. Observed(c, rows) \in 0 .. today
  <2>1. CASE Valued(c, rows) = {}
    BY <1>0, <2>1 DEF Observed
  <2>2. CASE Valued(c, rows) # {}
    <3> DEFINE v == IF b <= today + Horizon[c] THEN b ELSE today + Horizon[c]
               m == IF v >= advanced[c] THEN v ELSE advanced[c]
               S == Valued(c, rows) \cup {advanced[c]}
    <3>1. Valued(c, rows) = {y \in a .. b : y <= today + Horizon[c]}
      BY <1>1 DEF Valued
    <3>2. v \in Valued(c, rows) /\ \A y \in Valued(c, rows) : y \in Int /\ v >= y
      BY <1>0, <1>1, <2>2, <3>1
    <3>3. m \in S /\ m \in Int /\ m >= advanced[c] /\ \A y \in S : y \in Int /\ m >= y
      BY <1>0, <1>1, <3>2
    <3> HIDE DEF v, S
    <3>4. \A x \in S : (\A y \in S : x >= y) => x = m
      BY <3>3
    <3>5. Max(S) = m
      BY <3>3, <3>4 DEF Max
    <3> HIDE DEF m
    <3>6. Min({m, today}) \in {m, today} /\ Min({m, today}) <= today
      <4>1. \E x \in {m, today} : \A y \in {m, today} : x =< y
        BY <1>0, <3>3
      <4> QED
        BY <4>1 DEF Min
    <3>7. Observed(c, rows) = Min({m, today})
      BY <2>2, <3>5 DEF Observed, S
    <3> QED
      BY <1>0, <3>3, <3>6, <3>7
  <2> QED
    BY <2>1, <2>2
<1> QED
  BY <1>2, <1>3

-----------------------------------------------------------------------------
(* The invariant. *)

LEMMA InitHolds == Init => IInv
<1> SUFFICES ASSUME Init PROVE IInv
  OBVIOUS
<1>1. DOMAIN <<>> = {} /\ <<>> \in [{} -> Row]
  OBVIOUS
<1>2. <<>> \in RowSets
  BY <1>1 DEF RowSets
<1>3. NoRequest \in Request
  BY NoRequestIsOne
<1>4. FirstYear .. 0 = {}
  BY WdiAssumption
<1>5. TypeInv
  BY <1>2, <1>3, WdiAssumption, OrderIsOfCodes DEF Init, TypeInv, NoLoad
<1> QED
  BY <1>4, <1>5 DEF Init, IInv, FetchInv, IdleInv, MarksInv

LEMMA StartKeeps == IInv /\ StartLoad => IInv'
<1> SUFFICES ASSUME IInv, StartLoad PROVE IInv'
  OBVIOUS
<1>0. TypeInv /\ MarksInv /\ pc = "idle" /\ fetch = [c \in Codes |-> NoRequest] /\ yielded = 0
  BY DEF IInv, IdleInv, StartLoad
<1>1. PICK config \in Configs, flags \in SUBSET FullReloads,
           wanted \in {{"wb_wdi"}, FullRefresh \cup Incremental} :
        LET years == YearsOf(config[1], config[2])
            group == CHOOSE g \in LoadGroups(wanted, flags) : "wb_wdi" \in g.names
        IN IF RangeRefused(config[1], config[2]) \/ ReloadRefused(wanted, flags, years # <<>>)
           THEN UNCHANGED <<load, pc>>
           ELSE load' = [years |-> years, drop |-> group.refresh] /\ pc' = "extract"
  BY DEF StartLoad
<1> DEFINE years == YearsOf(config[1], config[2])
           group == CHOOSE g \in LoadGroups(wanted, flags) : "wb_wdi" \in g.names
<1>2. /\ advanced' = IF load'.drop THEN [c \in Codes |-> 0] ELSE marks
      /\ loads' = loads + 1 /\ loads < MaxLoads
      /\ UNCHANGED <<today, edition, table, marks, fetch, yielded, troubles>>
  BY DEF StartLoad
<1>3. group \in LoadGroups(wanted, flags) /\ "wb_wdi" \in group.names
  <2>1. \E g \in LoadGroups(wanted, flags) : "wb_wdi" \in g.names
    <3>1. "wb_wdi" \in wanted
      BY DEF Incremental
    <3>2. CASE "wb_wdi" \in flags
      <4> DEFINE g == [names |-> (FullRefresh \cup (flags \cap FullReloads)) \cap wanted, refresh |-> TRUE]
      <4>1. "wb_wdi" \in g.names
        BY <3>1, <3>2 DEF FullReloads
      <4>2. g \in LoadGroups(wanted, flags)
        BY <4>1 DEF LoadGroups
      <4> QED
        BY <4>1, <4>2
    <3>3. CASE "wb_wdi" \notin flags
      <4> DEFINE g == [names |-> (Incremental \ (flags \cap FullReloads)) \cap wanted, refresh |-> FALSE]
      <4>1. "wb_wdi" \in g.names
        BY <3>1, <3>3 DEF Incremental
      <4>2. g \in LoadGroups(wanted, flags)
        BY <4>1 DEF LoadGroups
      <4> QED
        BY <4>1, <4>2
    <3> QED
      BY <3>2, <3>3
  <2> QED
    BY <2>1
<1>4. group.refresh \in BOOLEAN /\ (group.refresh => "wb_wdi" \in flags \cap FullReloads \cap wanted)
  <2> HIDE DEF group
  <2> DEFINE full == [names |-> (FullRefresh \cup (flags \cap FullReloads)) \cap wanted, refresh |-> TRUE]
             rest == [names |-> (Incremental \ (flags \cap FullReloads)) \cap wanted, refresh |-> FALSE]
  <2>1. group = full \/ group = rest
    BY <1>3 DEF LoadGroups
  <2>2. CASE group = full
    <3>1. group.refresh = TRUE /\ group.names = (FullRefresh \cup (flags \cap FullReloads)) \cap wanted
      BY <2>2
    <3>2. "wb_wdi" \notin FullRefresh
      BY DEF FullRefresh
    <3> QED
      BY <1>3, <3>1, <3>2
  <2>3. CASE group = rest
    <3>1. group.refresh = FALSE
      BY <2>3
    <3> QED
      BY <3>1
  <2> QED
    BY <2>1, <2>2, <2>3
<1> HIDE DEF group
<1>5. /\ today' \in StartYear .. LastYear /\ edition' \in [Codes -> 1 .. MaxEditions]
      /\ table' \in [Codes -> RowSets] /\ marks' \in [Codes -> 0 .. today']
      /\ fetch' \in [Codes -> Request] /\ yielded' \in 0 .. Len(Order)
      /\ loads' \in 0 .. MaxLoads /\ troubles' \in 0 .. MaxTroubles
  <2>1. loads \in 0 .. MaxLoads /\ MaxLoads \in Nat
    BY <1>0, WdiAssumption DEF TypeInv
  <2>2. loads' \in 0 .. MaxLoads
    BY <1>2, <2>1
  <2> QED
    BY <1>0, <1>2, <2>2 DEF TypeInv
<1>6. advanced' \in [Codes -> 0 .. today']
  <2>1. 0 \in 0 .. today
    BY <1>0, WdiAssumption DEF TypeInv
  <2> QED
    BY <1>0, <1>2, <2>1 DEF TypeInv
<1>7. CASE RangeRefused(config[1], config[2]) \/ ReloadRefused(wanted, flags, years # <<>>)
  <2>1. UNCHANGED <<load, pc>>
    BY <1>1, <1>7
  <2>2. TypeInv'
    BY <1>0, <1>5, <1>6, <2>1 DEF TypeInv
  <2> QED
    BY <1>0, <1>2, <2>1, <2>2 DEF IInv, FetchInv, IdleInv, MarksInv
<1>8. CASE ~(RangeRefused(config[1], config[2]) \/ ReloadRefused(wanted, flags, years # <<>>))
  <2>1. load' = [years |-> years, drop |-> group.refresh] /\ pc' = "extract"
    BY <1>1, <1>8 DEF group
  <2>2. config[1] \in Nat /\ config[2] \in Nat
    BY WdiAssumption
  <2>3. /\ today \in FirstYear .. LastYear /\ FirstYear \in Nat \ {0} /\ LastYear \in Nat
    BY <1>0, WdiAssumption DEF TypeInv
  <2>4. years # <<>> => years \in Range2 /\ years[2] <= today
    <3>1. CASE config[1] = 0
      BY <3>1 DEF YearsOf
    <3>2. CASE config[1] # 0 /\ config[2] = 0
      <4>1. years = <<config[1], config[1]>>
        BY <3>2 DEF YearsOf
      <4>2. FirstYear <= config[1] /\ config[1] <= today
        BY <1>8, <3>2 DEF RangeRefused
      <4> HIDE DEF years
      <4>3. years \in Nat \X Nat /\ years[1] = config[1] /\ years[2] = config[1]
        BY <2>2, <4>1
      <4>4. FirstYear <= years[1] /\ years[1] <= years[2] /\ years[2] <= LastYear /\ years[2] <= today
        BY <2>2, <2>3, <4>2, <4>3
      <4> QED
        BY <4>3, <4>4 DEF Range2
    <3>3. CASE config[1] # 0 /\ config[2] # 0
      <4>1. years = <<config[1], config[2]>>
        BY <3>3 DEF YearsOf
      <4>2. FirstYear <= config[1] /\ config[1] <= config[2] /\ config[2] <= today
        BY <1>8, <3>3 DEF RangeRefused
      <4> HIDE DEF years
      <4>3. years \in Nat \X Nat /\ years[1] = config[1] /\ years[2] = config[2]
        BY <2>2, <4>1
      <4>4. FirstYear <= years[1] /\ years[1] <= years[2] /\ years[2] <= LastYear /\ years[2] <= today
        BY <2>2, <2>3, <4>2, <4>3
      <4> QED
        BY <4>3, <4>4 DEF Range2
    <3> QED
      BY <3>1, <3>2, <3>3
  <2>5. group.refresh => years = <<>>
    BY <1>4, <1>8 DEF ReloadRefused
  <2> HIDE DEF years
  <2>6. load'.years = years /\ load'.drop = group.refresh
    BY <2>1
  <2>7. LoadIsSound'
    BY <1>2, <2>4, <2>5, <2>6 DEF LoadIsSound
  <2>9. load' \in [years : {<<>>} \cup Range2, drop : BOOLEAN]
    BY <1>4, <2>1, <2>4
  <2>10. TypeInv'
    BY <1>5, <1>6, <2>1, <2>9 DEF TypeInv
  <2>11. ASSUME NEW c \in Codes PROVE Sound(c, fetch[c])'
    <3>1. (Sound(c, NoRequest))'
      BY <2>7, <2>10, NoRequestIsSoundNext
    <3>2. fetch'[c] = NoRequest
      BY <1>0, <1>2
    <3> QED
      BY <2>7, <2>10, <3>1, <3>2 DEF Sound, RowsAreOf, PagesSoFar, GotIsWhole, NoRequest
  <2>12. ASSUME NEW c \in Codes PROVE (FirstYear .. advanced[c] \subseteq WillHold(c))'
    <3>1. CASE group.refresh
      <4>1. FirstYear .. 0 = {}
        BY <2>3
      <4> QED
        BY <1>2, <2>6, <3>1, <4>1
    <3>2. CASE ~group.refresh
      BY <1>0, <1>2, <2>6, <3>2 DEF WillHold, MarksInv
    <3> QED
      BY <3>1, <3>2
  <2>13. FetchInv'
    BY <1>0, <1>2, <2>7, <2>11, <2>12 DEF FetchInv
  <2> QED
    BY <1>0, <1>2, <2>1, <2>10, <2>13 DEF IInv, IdleInv, MarksInv
<1> QED
  BY <1>7, <1>8

\* A step of a running load keeps the invariant when its requests stay sound, its marks stay
\* backed by the rows it holds, and the codes it has yielded have theirs.
LEMMA ExtractStep ==
    ASSUME IInv, pc = "extract", UNCHANGED <<today, table, marks, load, pc>>, TypeInv',
           \A c \in Codes : Sound(c, fetch'[c]),
           \A c \in Codes : (FirstYear .. advanced[c] \subseteq WillHold(c))',
           \A i \in 1 .. yielded' : fetch'[Order[i]].state = "got"
    PROVE  IInv'
<1>1. LoadIsSound'
  BY DEF IInv, FetchInv, LoadIsSound
<1>2. \A c \in Codes : Sound(c, fetch[c])'
  BY SoundStays
<1>3. MarksInv'
  BY DEF IInv, MarksInv
<1> QED
  BY <1>1, <1>2, <1>3 DEF IInv, FetchInv, IdleInv

LEMMA PageKeeps == ASSUME IInv, NEW c \in Codes, Page(c) PROVE IInv'
<1> DEFINE f == fetch[c]
<1>0. /\ TypeInv /\ pc = "extract" /\ f.state = "asking" /\ f \in Request /\ LoadIsSound
      /\ \A d \in Codes : Sound(d, fetch[d]) /\ FirstYear .. advanced[d] \subseteq WillHold(d)
      /\ \A i \in 1 .. yielded : fetch[Order[i]].state = "got"
      /\ UNCHANGED <<today, edition, table, marks, load, advanced, pc, yielded, loads, troubles>>
  BY DEF IInv, FetchInv, TypeInv, Page
<1>1. \E g \in Request : Sound(c, g) /\ fetch' = [fetch EXCEPT ![c] = g]
  <2>1. PICK e \in 1 .. edition[c], coded \in BOOLEAN :
          LET got == [y \in PageYears(c, f.per, f.page) |-> [edition |-> e, coded |-> coded]]
              rows == [y \in DOMAIN f.rows \cup DOMAIN got |->
                         IF y \in DOMAIN got THEN got[y] ELSE f.rows[y]]
              more == [f EXCEPT !.metas = @ \cup {e}, !.rows = rows, !.tries = 0]
          IN /\ e = edition[c] => coded
             /\ fetch' = [fetch EXCEPT ![c] =
                            IF f.page < Pages(c, f.per) THEN [more EXCEPT !.page = @ + 1] ELSE Judged(more)]
    BY DEF Page
  <2> HIDE DEF f
  <2>2. Sound(c, f)
    BY <1>0 DEF f
  <2> DEFINE row == [edition |-> e, coded |-> coded]
  <2>3. fetch' = [fetch EXCEPT ![c] = PageMore(c, f, e, row)]
    BY <2>1 DEF PageMore
  <2>4. row \in Row /\ row.edition = e
    <3>1. edition[c] \in 1 .. MaxEditions /\ MaxEditions \in Nat
      BY <1>0, WdiAssumption DEF TypeInv
    <3> QED
      BY <3>1 DEF Row
  <2>5. f \in Request /\ f.state = "asking"
    BY <1>0 DEF f
  <2> HIDE DEF row
  <2> QED
    BY <1>0, <2>2, <2>3, <2>4, <2>5, PageIsSound
<1>2. PICK g \in Request : Sound(c, g) /\ fetch' = [fetch EXCEPT ![c] = g]
  BY <1>1
<1>3. fetch \in [Codes -> Request] /\ fetch'[c] = g /\ \A d \in Codes \ {c} : fetch'[d] = fetch[d]
  BY <1>0, <1>2 DEF TypeInv
<1>4. fetch' \in [Codes -> Request]
  BY <1>2, <1>3
<1>5. TypeInv'
  BY <1>0, <1>4 DEF TypeInv
<1>6. \A d \in Codes : Sound(d, fetch'[d])
  BY <1>0, <1>2, <1>3
<1>7. ASSUME NEW d \in Codes PROVE (FirstYear .. advanced[d] \subseteq WillHold(d))'
  <2>1. CASE d = c
    <3>1. WillHold(d) = IF load.drop THEN {} ELSE DOMAIN table[d]
      BY <1>0, <2>1 DEF WillHold
    <3> QED
      BY <1>0, <3>1 DEF WillHold
  <2>2. CASE d # c
    BY <1>0, <1>3, <2>2 DEF WillHold
  <2> QED
    BY <2>1, <2>2
<1>8. \A i \in 1 .. yielded' : fetch'[Order[i]].state = "got"
  <2>1. yielded \in 0 .. Len(Order)
    BY <1>0 DEF TypeInv
  <2>2. \A i \in 1 .. yielded : Order[i] \in Codes \ {c}
    BY <1>0, <2>1, OrderIsOfCodes
  <2> QED
    BY <1>0, <1>3, <2>2
<1> QED
  BY <1>0, <1>5, <1>6, <1>7, <1>8, ExtractStep

LEMMA PageFailsKeeps == ASSUME IInv, NEW c \in Codes, PageFails(c) PROVE IInv'
<1> DEFINE f == fetch[c]
<1>0. /\ TypeInv /\ pc = "extract" /\ f.state = "asking" /\ f \in Request
      /\ \A d \in Codes : Sound(d, fetch[d]) /\ FirstYear .. advanced[d] \subseteq WillHold(d)
      /\ \A i \in 1 .. yielded : fetch[Order[i]].state = "got"
      /\ troubles < MaxTroubles /\ troubles' = troubles + 1
      /\ UNCHANGED <<today, edition, table, marks, load, advanced, pc, yielded, loads>>
  BY DEF IInv, FetchInv, TypeInv, PageFails
<1>1. \E g \in Request :
        /\ fetch' = [fetch EXCEPT ![c] = g]
        /\ g.rows = f.rows /\ g.metas = f.metas /\ g.per = f.per /\ g.page = f.page
        /\ g.state = "asking" \/ g.state = "raised"
  <2>1. f.tries \in 0 .. Retries - 1 /\ Retries \in Nat
    BY <1>0, WdiAssumption DEF Request
  <2>2. CASE f.tries + 1 < Retries /\ fetch' = [fetch EXCEPT ![c].tries = @ + 1]
    <3> DEFINE g == [f EXCEPT !.tries = f.tries + 1]
    <3>1. f.tries + 1 \in 0 .. Retries - 1
      BY <2>1, <2>2
    <3>2. fetch' = [fetch EXCEPT ![c] = g]
      BY <2>2
    <3> HIDE DEF f
    <3>3. /\ g \in Request /\ g.rows = f.rows /\ g.metas = f.metas /\ g.per = f.per /\ g.page = f.page
          /\ g.state = "asking"
      BY <1>0, <3>1 DEF Request
    <3> QED
      BY <3>2, <3>3
  <2>3. CASE fetch' = [fetch EXCEPT ![c].state = "raised"]
    <3> DEFINE g == [f EXCEPT !.state = "raised"]
    <3>1. fetch' = [fetch EXCEPT ![c] = g]
      BY <2>3
    <3> HIDE DEF f
    <3>2. /\ g \in Request /\ g.rows = f.rows /\ g.metas = f.metas /\ g.per = f.per /\ g.page = f.page
          /\ g.state = "raised"
      BY <1>0 DEF Request
    <3> QED
      BY <3>1, <3>2
  <2> QED
    BY <2>2, <2>3 DEF PageFails
<1>2. PICK g \in Request :
        /\ fetch' = [fetch EXCEPT ![c] = g]
        /\ g.rows = f.rows /\ g.metas = f.metas /\ g.per = f.per /\ g.page = f.page
        /\ g.state = "asking" \/ g.state = "raised"
  BY <1>1
<1>4. fetch \in [Codes -> Request] /\ fetch'[c] = g /\ \A d \in Codes \ {c} : fetch'[d] = fetch[d]
  BY <1>0, <1>2 DEF TypeInv
<1>5. fetch' \in [Codes -> Request]
  BY <1>2, <1>4
<1>6. TypeInv'
  <2>0. troubles \in 0 .. MaxTroubles /\ MaxTroubles \in Nat
    BY <1>0, WdiAssumption DEF TypeInv
  <2>1. troubles' \in 0 .. MaxTroubles
    BY <1>0, <2>0
  <2> QED
    BY <1>0, <1>5, <2>1 DEF TypeInv
<1>7. \A d \in Codes : Sound(d, fetch'[d])
  <2>1. Sound(c, f)
    BY <1>0
  <2> HIDE DEF f
  <2>2. f.state = "asking"
    BY <1>0
  <2>3. Sound(c, g)
    BY <1>2, <2>1, <2>2 DEF Sound, RowsAreOf, PagesSoFar, GotIsWhole
  <2> QED
    BY <1>0, <1>4, <2>3
<1>8. ASSUME NEW d \in Codes PROVE (FirstYear .. advanced[d] \subseteq WillHold(d))'
  <2>1. CASE d = c
    <3>1. WillHold(d) = IF load.drop THEN {} ELSE DOMAIN table[d]
      BY <1>0, <2>1 DEF WillHold
    <3> QED
      BY <1>0, <3>1 DEF WillHold
  <2>2. CASE d # c
    BY <1>0, <1>4, <2>2 DEF WillHold
  <2> QED
    BY <2>1, <2>2
<1>9. \A i \in 1 .. yielded' : fetch'[Order[i]].state = "got"
  <2>1. yielded \in 0 .. Len(Order)
    BY <1>0 DEF TypeInv
  <2>2. \A i \in 1 .. yielded : Order[i] \in Codes \ {c}
    BY <1>0, <2>1, OrderIsOfCodes
  <2> QED
    BY <1>0, <1>4, <2>2
<1> QED
  BY <1>0, <1>6, <1>7, <1>8, <1>9, ExtractStep

LEMMA YieldKeeps == ASSUME IInv, Yield PROVE IInv'
<1>0. /\ TypeInv /\ pc = "extract" /\ LoadIsSound /\ MarksInv
      /\ \A d \in Codes : Sound(d, fetch[d]) /\ FirstYear .. advanced[d] \subseteq WillHold(d)
      /\ \A i \in 1 .. yielded : fetch[Order[i]].state = "got"
      /\ yielded < Len(Order) /\ yielded' = yielded + 1
      /\ UNCHANGED <<today, edition, table, marks, load, fetch, pc, loads, troubles>>
  BY DEF IInv, FetchInv, Yield
<1> DEFINE c == Order[yielded + 1]
<1>1. /\ fetch[c].state = "got"
      /\ advanced' = IF MovesTheMark THEN [advanced EXCEPT ![c] = Observed(c, fetch[c].rows)] ELSE advanced
  BY DEF Yield
<1>2. yielded \in 0 .. Len(Order) /\ Len(Order) \in Nat /\ advanced \in [Codes -> 0 .. today]
      /\ today \in FirstYear .. LastYear /\ FirstYear \in Nat /\ LastYear \in Nat
  <2>1. yielded \in 0 .. Len(Order) /\ advanced \in [Codes -> 0 .. today] /\ today \in StartYear .. LastYear
    BY <1>0 DEF TypeInv
  <2>2. FirstYear \in Nat /\ LastYear \in Nat /\ StartYear \in FirstYear .. LastYear
    BY WdiAssumption
  <2>3. Len(Order) \in Nat
    BY OrderIsOfCodes
  <2> QED
    BY <2>1, <2>2, <2>3
<1>3. yielded + 1 \in 1 .. Len(Order)
  BY <1>0, <1>2
<1>4. c \in Codes
  BY <1>3, OrderIsOfCodes
<1>5. DOMAIN fetch[c].rows = Window(c)
  BY <1>0, <1>1, <1>4 DEF Sound, GotIsWhole
<1> HIDE DEF c
<1>6. MovesTheMark => /\ Observed(c, fetch[c].rows) \in 0 .. today
                      /\ FirstYear .. today \subseteq WillHold(c)
  BY <1>0, <1>1, <1>4, <1>5, ObservedIsHeld DEF WillHold
<1>7. advanced' \in [Codes -> 0 .. today]
  BY <1>1, <1>2, <1>6
<1>8. TypeInv'
  <2>1. yielded' \in 0 .. Len(Order)
    BY <1>0, <1>2, <1>3
  <2> QED
    BY <1>0, <1>7, <2>1 DEF TypeInv
<1>9. ASSUME NEW d \in Codes PROVE (FirstYear .. advanced[d] \subseteq WillHold(d))'
  <2>1. WillHold(d)' = WillHold(d)
    BY <1>0 DEF WillHold
  <2>2. CASE d = c /\ MovesTheMark
    <3>1. advanced'[d] \in 0 .. today
      BY <1>7
    <3>2. FirstYear .. advanced'[d] \subseteq FirstYear .. today
      BY <1>2, <3>1
    <3> QED
      BY <1>6, <2>1, <2>2, <3>2
  <2>3. CASE ~(d = c /\ MovesTheMark)
    <3>1. advanced'[d] = advanced[d]
      BY <1>1, <1>2, <2>3
    <3> QED
      BY <1>0, <2>1, <3>1
  <2> QED
    BY <2>2, <2>3
<1>10. \A i \in 1 .. yielded' : fetch'[Order[i]].state = "got"
  <2>1. \A i \in 1 .. yielded' : i \in 1 .. yielded \/ i = yielded + 1
    BY <1>0, <1>2
  <2> QED
    BY <1>0, <1>1, <2>1 DEF c
<1>11. \A d \in Codes : Sound(d, fetch'[d])
  BY <1>0
<1> QED
  BY <1>0, <1>8, <1>9, <1>10, <1>11, ExtractStep

\* What a landing load leaves of each code.
LEMMA LandedRows ==
    ASSUME IInv, Land, NEW c \in Codes
    PROVE  /\ fetch[c].state = "got" /\ DOMAIN fetch[c].rows = Window(c)
           /\ table'[c] = Merged(c) /\ DOMAIN table'[c] = WillHold(c) /\ table'[c] \in RowSets
           /\ \A y \in Window(c) : table'[c][y] = fetch[c].rows[y]
<1>0. /\ TypeInv /\ pc = "extract" /\ Sound(c, fetch[c])
      /\ \A i \in 1 .. yielded : fetch[Order[i]].state = "got"
      /\ yielded = Len(Order) /\ table' = [d \in Codes |-> Merged(d)]
  BY DEF IInv, FetchInv, Land
<1>1. fetch[c].state = "got"
  <2>1. PICK i \in 1 .. Len(Order) : c = Order[i]
    BY OrderIsOfCodes
  <2> QED
    BY <1>0, <2>1
<1>2. DOMAIN fetch[c].rows = Window(c)
  BY <1>0, <1>1 DEF Sound, GotIsWhole
<1>3. table'[c] = Merged(c)
  BY <1>0
<1> DEFINE held == IF load.drop THEN <<>> ELSE table[c]
<1>4. held \in RowSets /\ fetch[c].rows \in RowSets
  <2>1. <<>> \in RowSets
    <3>1. DOMAIN <<>> = {} /\ <<>> \in [{} -> Row]
      OBVIOUS
    <3> QED
      BY <3>1 DEF RowSets
  <2>2. table[c] \in RowSets /\ fetch[c] \in Request
    BY <1>0 DEF TypeInv
  <2> QED
    BY <2>1, <2>2 DEF Request
<1>5. DOMAIN held = IF load.drop THEN {} ELSE DOMAIN table[c]
  <2>1. DOMAIN <<>> = {}
    OBVIOUS
  <2> QED
    BY <2>1
<1>6. Merged(c) = [y \in DOMAIN held \cup DOMAIN fetch[c].rows |->
                     IF y \in DOMAIN fetch[c].rows THEN fetch[c].rows[y] ELSE held[y]]
  BY DEF Merged
<1> HIDE DEF held
<1>7. DOMAIN Merged(c) = DOMAIN held \cup DOMAIN fetch[c].rows
      /\ \A y \in DOMAIN fetch[c].rows : Merged(c)[y] = fetch[c].rows[y]
  BY <1>6
<1>8. Merged(c) \in RowSets
  <2>1. /\ DOMAIN held \subseteq Calendar /\ DOMAIN fetch[c].rows \subseteq Calendar
        /\ held \in [DOMAIN held -> Row] /\ fetch[c].rows \in [DOMAIN fetch[c].rows -> Row]
    BY <1>4 DEF RowSets
  <2>2. Merged(c) \in [DOMAIN held \cup DOMAIN fetch[c].rows -> Row]
    BY <1>6, <2>1
  <2> QED
    BY <2>1, <2>2 DEF RowSets
<1>9. DOMAIN Merged(c) = WillHold(c)
  BY <1>1, <1>5, <1>7 DEF WillHold
<1> QED
  BY <1>1, <1>2, <1>3, <1>7, <1>8, <1>9

\* A run that is over holds nothing.
LEMMA EndedTypes ==
    ASSUME TypeInv, EndLoad, UNCHANGED <<today, edition, loads, troubles>>,
           table' \in [Codes -> RowSets], marks' \in [Codes -> 0 .. today]
    PROVE  TypeInv' /\ FetchInv' /\ IdleInv'
<1>1. load' = NoLoad /\ fetch' = [c \in Codes |-> NoRequest] /\ yielded' = 0 /\ pc' = "idle"
      /\ advanced' = marks'
  BY DEF EndLoad
<1>2. NoLoad \in [years : {<<>>} \cup Range2, drop : BOOLEAN]
  BY DEF NoLoad
<1>3. fetch' \in [Codes -> Request] /\ yielded' \in 0 .. Len(Order)
  BY <1>1, NoRequestIsOne, OrderIsOfCodes
<1>4. TypeInv'
  BY <1>1, <1>2, <1>3 DEF TypeInv
<1> QED
  BY <1>1, <1>4 DEF FetchInv, IdleInv

LEMMA LandKeeps == ASSUME IInv, Land PROVE IInv'
<1>0. /\ TypeInv /\ EndLoad /\ UNCHANGED <<today, edition, loads, troubles>> /\ marks' = advanced
      /\ table' = [c \in Codes |-> Merged(c)]
      /\ \A c \in Codes : FirstYear .. advanced[c] \subseteq WillHold(c)
  BY DEF IInv, FetchInv, Land
<1>1. table' \in [Codes -> RowSets] /\ \A c \in Codes : DOMAIN table'[c] = WillHold(c)
  BY <1>0, LandedRows
<1>2. marks' \in [Codes -> 0 .. today]
  BY <1>0 DEF TypeInv
<1>3. TypeInv' /\ FetchInv' /\ IdleInv'
  BY <1>0, <1>1, <1>2, EndedTypes
<1>4. MarksInv'
  BY <1>0, <1>1 DEF MarksInv
<1> QED
  BY <1>3, <1>4 DEF IInv

LEMMA LoadFailsKeeps == ASSUME IInv, LoadFails PROVE IInv'
<1>0. /\ TypeInv /\ MarksInv /\ EndLoad /\ UNCHANGED <<today, edition, table, loads, troubles>> /\ marks' = marks
  BY DEF IInv, LoadFails, KeptMarks
<1>1. table' \in [Codes -> RowSets] /\ marks' \in [Codes -> 0 .. today]
  BY <1>0 DEF TypeInv
<1>2. TypeInv' /\ FetchInv' /\ IdleInv'
  BY <1>0, <1>1, EndedTypes
<1> QED
  BY <1>0, <1>2 DEF IInv, MarksInv

LEMMA NewYearKeeps == ASSUME IInv, NewYear PROVE IInv'
<1>0. /\ TypeInv /\ pc = "idle" /\ today < LastYear /\ today' = today + 1
      /\ UNCHANGED <<edition, table, marks, load, fetch, advanced, pc, yielded, loads, troubles>>
  BY DEF IInv, NewYear
<1>1. today \in StartYear .. LastYear /\ StartYear \in Nat /\ LastYear \in Nat
  BY <1>0, WdiAssumption DEF TypeInv
<1>2. today' \in StartYear .. LastYear /\ 0 .. today \subseteq 0 .. today'
  BY <1>0, <1>1
<1>3. TypeInv'
  BY <1>0, <1>2 DEF TypeInv
<1> QED
  BY <1>0, <1>3 DEF IInv, FetchInv, IdleInv, MarksInv

LEMMA PublishKeeps == ASSUME IInv, NEW c \in Codes, Publish(c) PROVE IInv'
<1>0. /\ TypeInv /\ edition[c] < MaxEditions /\ edition' = [edition EXCEPT ![c] = @ + 1]
      /\ UNCHANGED <<today, table, marks, load, fetch, advanced, pc, yielded, loads, troubles>>
  BY DEF IInv, Publish
<1>1. edition' \in [Codes -> 1 .. MaxEditions]
  <2>1. edition \in [Codes -> 1 .. MaxEditions] /\ MaxEditions \in Nat
    BY <1>0, WdiAssumption DEF TypeInv
  <2>2. edition[c] + 1 \in 1 .. MaxEditions
    BY <1>0, <2>1
  <2> QED
    BY <1>0, <2>1, <2>2
<1>2. TypeInv'
  BY <1>0, <1>1 DEF TypeInv
<1>3. CASE pc = "extract"
  <2>1. \A d \in Codes : (FirstYear .. advanced[d] \subseteq WillHold(d))'
    BY <1>0, <1>3 DEF IInv, FetchInv, WillHold
  <2>2. (\A d \in Codes : Sound(d, fetch'[d])) /\ \A i \in 1 .. yielded' : fetch'[Order[i]].state = "got"
    BY <1>0, <1>3 DEF IInv, FetchInv
  <2> QED
    BY <1>0, <1>2, <1>3, <2>1, <2>2, ExtractStep
<1>4. CASE pc = "idle"
  BY <1>0, <1>2, <1>4 DEF IInv, FetchInv, IdleInv, MarksInv
<1> QED
  BY <1>0, <1>3, <1>4 DEF TypeInv

LEMMA StutterKeeps == ASSUME IInv, UNCHANGED vars PROVE IInv'
<1>0. TypeInv /\ UNCHANGED <<today, edition, table, marks, load, fetch, advanced, pc, yielded, loads, troubles>>
  BY DEF IInv, vars
<1>1. TypeInv'
  BY <1>0 DEF TypeInv
<1>3. CASE pc = "extract"
  <2>1. \A d \in Codes : (FirstYear .. advanced[d] \subseteq WillHold(d))'
    BY <1>0, <1>3 DEF IInv, FetchInv, WillHold
  <2>2. (\A d \in Codes : Sound(d, fetch'[d])) /\ \A i \in 1 .. yielded' : fetch'[Order[i]].state = "got"
    BY <1>0, <1>3 DEF IInv, FetchInv
  <2> QED
    BY <1>0, <1>1, <1>3, <2>1, <2>2, ExtractStep
<1>4. CASE pc = "idle"
  BY <1>0, <1>1, <1>4 DEF IInv, FetchInv, IdleInv, MarksInv
<1> QED
  BY <1>0, <1>3, <1>4 DEF TypeInv

\* The invariant holds throughout.
THEOREM InvariantHolds == Spec => []IInv
<1>1. IInv /\ [Next]_vars => IInv'
  <2> SUFFICES ASSUME IInv, [Next]_vars PROVE IInv'
    OBVIOUS
  <2>1. CASE NewYear
    BY <2>1, NewYearKeeps
  <2>2. CASE StartLoad
    BY <2>2, StartKeeps
  <2>3. CASE Process
    BY <2>3, YieldKeeps, LandKeeps, LoadFailsKeeps, PageKeeps, PageFailsKeeps DEF Process
  <2>4. CASE \E c \in Codes : Publish(c)
    BY <2>4, PublishKeeps
  <2>5. CASE UNCHANGED vars
    BY <2>5, StutterKeeps
  <2> QED
    BY <2>1, <2>2, <2>3, <2>4, <2>5 DEF Next
<1> QED
  BY InitHolds, <1>1, PTL DEF Spec

-----------------------------------------------------------------------------
(* What the runs check. *)

\* A watermark is never past today, no year below it is missing from the table, and a
\* routine load asks from its lookback on, for any series, lookback and configs (wb_wdi,
\* wdi_url).
THEOREM WatermarksStaySafe == Spec => []WatermarksAreSafe
<1>1. IInv => WatermarksAreSafe
  <2> SUFFICES ASSUME IInv PROVE WatermarksAreSafe
    OBVIOUS
  <2>1. TypeOK
    <3>1. \A c \in Codes : DOMAIN table[c] \subseteq Calendar
      BY DEF IInv, TypeInv, RowSets
    <3>2. ASSUME NEW c \in Codes
          PROVE  fetch[c].state \in {"asking", "got", "raised"} /\ fetch[c].tries < Retries
      <4>1. fetch[c] \in Request
        BY DEF IInv, TypeInv
      <4>2. fetch[c].tries \in 0 .. Retries - 1 /\ Retries \in Nat
        BY <4>1, WdiAssumption DEF Request
      <4> QED
        BY <4>1, <4>2 DEF Request
    <3> QED
      BY <3>1, <3>2 DEF IInv, TypeInv, TypeOK
  <2>2. NoHoleBelowAWatermark
    BY DEF IInv, MarksInv, NoHoleBelowAWatermark
  <2>3. LookbackIsNarrow
    <3> SUFFICES ASSUME NEW c \in Codes, pc = "extract", load.years = <<>>, ~load.drop, marks[c] # 0
                 PROVE  Window(c) \subseteq StartOf(marks[c]) .. today
      BY DEF LookbackIsNarrow
    <3> QED
      BY WindowIsARange DEF IInv, FetchInv
  <2> QED
    BY <2>1, <2>2, <2>3 DEF WatermarksAreSafe
<1> QED
  BY InvariantHolds, <1>1, PTL

\* The rows of a code that was not refused are of one edition, and not all without codes.
LEMMA OneEdition ==
    ASSUME IInv, pc = "extract", NEW c \in Codes, fetch[c].state = "got"
    PROVE  /\ \A y, x \in Window(c) : fetch[c].rows[y].edition = fetch[c].rows[x].edition
           /\ \E y \in Window(c) : fetch[c].rows[y].coded
<1> DEFINE f == fetch[c]
<1>0. TypeInv /\ LoadIsSound /\ RowsAreOf(f) /\ DOMAIN f.rows = Window(c) /\ Complete(f)
  BY DEF IInv, FetchInv, Sound, GotIsWhole
<1>1. f \in Request /\ MaxEditions \in Nat
  BY <1>0, WdiAssumption DEF TypeInv
<1>2. PICK z \in Window(c) : f.rows[z].coded
  <2>1. Window(c) # {}
    BY <1>0, WindowShape
  <2> QED
    BY <1>0, <2>1 DEF Complete, IsStale
<1>3. IsFiniteSet(f.metas) /\ Cardinality(f.metas) \in Nat /\ ~(Cardinality(f.metas) > 1)
  <2>1. IsFiniteSet(1 .. MaxEditions)
    BY <1>1, FS_Interval
  <2>2. f.metas \subseteq 1 .. MaxEditions
    BY <1>1 DEF Request
  <2>3. IsFiniteSet(f.metas)
    BY <2>1, <2>2, FS_Subset
  <2> QED
    BY <1>0, <2>3, FS_CardinalityType DEF Complete, MixedEditions
<1>4. \A e1, e2 \in f.metas : e1 = e2
  <2>1. f.metas # {}
    BY <1>0, <1>2 DEF RowsAreOf
  <2>2. Cardinality(f.metas) # 0
    BY <1>3, <2>1, FS_EmptySet
  <2>3. Cardinality(f.metas) = 1
    BY <1>3, <2>2
  <2> QED
    BY <1>3, <2>3, FS_Singleton
<1> QED
  BY <1>0, <1>2, <1>4 DEF RowsAreOf

\* A load changes an indicator's rows to those of one edition, not all without their
\* codes, and takes rows away only where it brings the whole series, whatever editions,
\* cached copies and errors its pages met (_fetch_wdi_indicator, load_groups).
THEOREM LoadsLandWhole == Spec => LandsWhole
<1>1. IInv /\ [Next]_vars => [LandsOneEdition /\ OnlyAWholeLoadDrops]_vars
  <2> SUFFICES ASSUME IInv, [Next]_vars PROVE LandsOneEdition /\ OnlyAWholeLoadDrops
    OBVIOUS
  <2>1. CASE table' = table
    BY <2>1 DEF LandsOneEdition, OnlyAWholeLoadDrops
  <2>2. CASE table' # table
    <3>1. Land
      BY <2>2 DEF Next, Process, NewYear, StartLoad, Yield, LoadFails, Page, PageFails, Publish, vars
    <3>2. pc = "extract" /\ TypeInv /\ LoadIsSound
      BY <3>1 DEF Land, IInv, FetchInv
    <3>3. LandsOneEdition
      <4> SUFFICES ASSUME NEW c \in Codes
                   PROVE  LET landed == {table'[c][y] : y \in Window(c)}
                          IN /\ \A row \in landed, other \in landed : row.edition = other.edition
                             /\ \E row \in landed : row.coded
        BY DEF LandsOneEdition
      <4>1. /\ \A y, x \in Window(c) : fetch[c].rows[y].edition = fetch[c].rows[x].edition
            /\ \E y \in Window(c) : fetch[c].rows[y].coded
        BY <3>1, <3>2, LandedRows, OneEdition
      <4>2. \A y \in Window(c) : table'[c][y] = fetch[c].rows[y]
        BY <3>1, LandedRows
      <4> QED
        BY <4>1, <4>2
    <3>4. OnlyAWholeLoadDrops
      <4> SUFFICES ASSUME NEW c \in Codes, ~(DOMAIN table[c] \subseteq DOMAIN table'[c])
                   PROVE  load.drop /\ FirstYear .. today \subseteq DOMAIN table'[c]
        BY DEF OnlyAWholeLoadDrops
      <4>1. DOMAIN table'[c] = (IF load.drop THEN {} ELSE DOMAIN table[c]) \cup Window(c)
        BY <3>1, LandedRows DEF WillHold
      <4>2. load.drop
        BY <4>1
      <4>3. load.years = <<>>
        BY <3>2, <4>2 DEF LoadIsSound
      <4>4. PICK a \in FirstYear .. LastYear, b \in FirstYear .. LastYear + Ahead :
              Window(c) = a .. b /\ a = FirstYear /\ b = today + Ahead
        BY <3>2, <4>2, <4>3, WindowIsARange
      <4>5. FirstYear \in Nat /\ Ahead \in Nat /\ today \in Nat
        BY <3>2, WdiAssumption DEF TypeInv
      <4>6. FirstYear .. today \subseteq Window(c)
        BY <4>4, <4>5
      <4> QED
        BY <4>1, <4>2, <4>6
    <3> QED
      BY <3>3, <3>4
  <2> QED
    BY <2>1, <2>2
<1> QED
  BY InvariantHolds, <1>1, PTL DEF Spec, LandsWhole
=============================================================================
