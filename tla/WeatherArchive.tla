---------------------------- MODULE WeatherArchive ----------------------------
(***************************************************************************)
(* raw.om_weather_daily and the loads that keep it                         *)
(* (src/ingest/sources/weather.py).  A load reads the table-wide watermark *)
(* from the lakehouse, asks Open-Meteo for the days from its lookback to   *)
(* the archive's end, one calendar year at a time, and merges the rows it  *)
(* lands by (country, day).  A backfill asks for whole years instead and   *)
(* ignores the watermark.                                                  *)
(*                                                                         *)
(* Open-Meteo is external: until a day settles it may publish, revise or   *)
(* withdraw its measurements.  What it serves for a country and a day is   *)
(* abstracted to a level.                                                  *)
(***************************************************************************)
EXTENDS Integers, FiniteSets

CONSTANTS
  Countries,     \* WEATHER_COUNTRIES
  Lookback,      \* WEATHER_LOOKBACK_DAYS
  EndLag,        \* WEATHER_END_LAG_DAYS
  EdgeDays,      \* WEATHER_EDGE_DAYS
  ColdYears,     \* WEATHER_COLD_START_YEARS
  YearLength,    \* days in a year; day 0 opens WEATHER_FIRST_YEAR
  SettleLag,     \* after how many days Open-Meteo revises a day no more
  Backfills,     \* the ranges <<first, last>> of years a person may backfill
  JumpAhead,     \* whether a backfill may reach past the watermark
  Levels,        \* the levels Open-Meteo serves in this instance
  LastDay        \* bound: the last day of a behaviour

\* Nothing measured; some variables null; all measured, preliminary; final.
None == 0
Partial == 1
Preliminary == 2
Final == 3
Complete(level) == level >= Preliminary

ASSUME ArchiveAssumption ==
  /\ Lookback \in Nat \ {0} /\ EndLag \in Nat /\ EdgeDays \in Nat
  /\ ColdYears \in Nat \ {0} /\ YearLength \in Nat \ {0} /\ LastDay \in Nat
  /\ Levels \subseteq {None, Partial, Preliminary, Final} /\ None \in Levels
  /\ Backfills \subseteq Nat \X Nat /\ JumpAhead \in BOOLEAN
\* Final values come "two to three months on", inside the lookback.
ASSUME SettleAssumption ==
  SettleLag \in Nat /\ EndLag <= SettleLag /\ SettleLag <= Lookback + EndLag

Days == 0 .. LastDay

VARIABLES
  today,
  published,   \* what Open-Meteo serves for a country and a day
  archive,     \* the level of the row at (country, day), None if there is none
  kind,        \* the running load: "routine", "backfill" or "none"
  asOf,        \* the running load's one `today`
  from, to,    \* the days it asks for, from .. to
  next,        \* the first of them it has not been answered for
  answers,     \* what it was answered
  loadedOn,    \* auxiliary: asOf of the last routine load committed
  since        \* auxiliary: the first day the last cold start asked for

loadVars == <<kind, asOf, from, to>>
vars == <<today, published, archive, kind, asOf, from, to, next, answers,
          loadedOn, since>>

------------------------------------------------------------------------------
Rows == [Countries -> [Days -> Levels]]
NoRows == [c \in Countries |-> [d \in Days |-> None]]

Init ==
  /\ today = 0
  /\ published = NoRows
  /\ archive = NoRows
  /\ kind = "none" /\ asOf = 0 /\ from = 0 /\ to = 0 /\ next = 0
  /\ answers = NoRows
  /\ loadedOn = 0
  /\ since = 0

\* Fault: a load asks for today.
NoEndLag(day) == day

EndDate(day) == day - EndLag

\* Open-Meteo publishes, revises or withdraws a day that has not settled.
\* Bound: a day some load of the behaviour may still ask for.
Publish(c, d, level) ==
  /\ d <= today /\ today < d + SettleLag /\ d <= EndDate(LastDay)
  /\ published' = [published EXCEPT ![c][d] = level]
  /\ UNCHANGED <<today, archive, loadVars, next, answers, loadedOn, since>>

NewDay ==
  /\ today < LastDay
  /\ today' = today + 1
  /\ UNCHANGED <<published, archive, loadVars, next, answers, loadedOn, since>>

------------------------------------------------------------------------------
(* The load's dates. *)

Stored(rows) == {d \in Days : \E c \in Countries : rows[c][d] # None}
Empty == Stored(archive) = {}

\* The newest day landed for any country.
Watermark == CHOOSE d \in Stored(archive) : \A e \in Stored(archive) : e <= d

\* Fault: the first year is no floor.
NoFloor(floor, d) == d

AtLeast(floor, d) == IF d < floor THEN floor ELSE d
AtMost(ceiling, d) == IF d > ceiling THEN ceiling ELSE d

\* Fault: the lookback leaves out one day too many.
StartDateOneDayLate ==
  IF Empty
  THEN AtLeast(0, YearLength * ((today \div YearLength) - ColdYears + 1))
  ELSE AtLeast(0, Watermark - (Lookback - 2))

\* 1 January of the oldest of the cold start's years, else the lookback, which
\* counts the watermark's own day; never before the first year.
StartDate ==
  IF Empty
  THEN AtLeast(0, YearLength * ((today \div YearLength) - ColdYears + 1))
  ELSE AtLeast(0, Watermark - (Lookback - 1))

------------------------------------------------------------------------------
(* A load: one at a time, as the store's single writer. *)

Start(k, first, last) ==
  /\ kind = "none"
  /\ kind' = k /\ asOf' = today /\ from' = first /\ to' = last /\ next' = first
  /\ UNCHANGED <<today, published, archive, answers, loadedOn, since>>

StartRoutine == Start("routine", StartDate, EndDate(today))

\* `years` asked for verbatim, clipped at the archive's end.
StartBackfill(years) ==
  LET last == AtMost(EndDate(today), YearLength * (years[2] + 1) - 1)
  IN  /\ Start("backfill", YearLength * years[1], last)
      /\ JumpAhead \/ last < YearLength * years[1]
           \/ (~Empty /\ last <= Watermark)

Asked == {d \in Days : from <= d /\ d <= to}

\* One request: the days left of its calendar year.  Open-Meteo answers with
\* what it serves then, maybe a day or more after the load began.
Fetch ==
  /\ kind # "none" /\ next <= to
  /\ LET yearEnd == YearLength * (next \div YearLength + 1) - 1
         last    == AtMost(to, yearEnd)
     IN  /\ answers' = [c \in Countries |-> [d \in Days |->
                           IF next <= d /\ d <= last THEN published[c][d]
                           ELSE answers[c][d]]]
         /\ next' = last + 1
  /\ UNCHANGED <<today, published, archive, loadVars, loadedOn, since>>

AtArchiveEnd == Asked # {} /\ to = EndDate(asOf)

\* A country's newest days with no complete day at or after them.
Edge(c) == {d \in Asked : \A e \in Asked : e >= d => ~Complete(answers[c][e])}

\* Fault: the cap counts the days with nothing measured too.
HeldBackCountingLag(c) ==
  IF AtArchiveEnd /\ Cardinality(Edge(c)) <= EdgeDays THEN Edge(c) ELSE {}

\* The edge, unless more than EdgeDays of it measured something.
HeldBack(c) ==
  IF AtArchiveEnd
       /\ Cardinality({d \in Edge(c) : answers[c][d] # None}) <= EdgeDays
  THEN Edge(c)
  ELSE {}

\* Fault: a day with nothing measured lands too.
LandsEmpty(c, d) == d \in Asked \ HeldBack(c)

Lands(c, d) == d \in Asked \ HeldBack(c) /\ answers[c][d] # None

\* The process ends: nothing of the load outlives it but what it merged.
EndLoad ==
  /\ kind' = "none" /\ asOf' = 0 /\ from' = 0 /\ to' = 0 /\ next' = 0
  /\ answers' = NoRows

\* The load has been answered for every day it asked for.
Answered == kind # "none" /\ to < next

\* dlt merges on (country, day): each landed row replaces the stored one whole.
Commit ==
  /\ Answered
  /\ archive' = [c \in Countries |-> [d \in Days |->
                   IF Lands(c, d) THEN answers[c][d] ELSE archive[c][d]]]
  /\ IF kind = "routine"
     THEN loadedOn' = asOf /\ since' = IF Empty THEN from ELSE since
     ELSE UNCHANGED <<loadedOn, since>>
  /\ EndLoad
  /\ UNCHANGED <<today, published>>

\* A failed request, a crash: nothing was yielded, so nothing lands.
Abandon ==
  /\ kind # "none"
  /\ EndLoad
  /\ UNCHANGED <<today, published, archive, loadedOn, since>>

Next ==
  \/ \E c \in Countries, d \in Days, level \in Levels : Publish(c, d, level)
  \/ NewDay
  \/ StartRoutine
  \/ \E years \in Backfills : StartBackfill(years)
  \/ Fetch
  \/ Commit
  \/ Abandon

Spec == Init /\ [][Next]_vars

------------------------------------------------------------------------------
\* Types of the archive's and the running load's state.
TypeOK ==
  /\ today \in Days
  /\ published \in Rows /\ archive \in Rows /\ answers \in Rows
  /\ kind \in {"none", "routine", "backfill"}
  /\ asOf \in Nat /\ from \in Nat /\ to \in Int /\ next \in Int
  /\ loadedOn \in Nat /\ since \in Nat

\* "A shorter window would freeze preliminary values into the carried archive":
\* once a routine load has run after a day settled, the row is what Open-Meteo
\* finally served, however long loads paused, failed or crossed a day before.
SettledDaysAreCurrent ==
  \A c \in Countries, d \in Days :
    (since <= d /\ d + SettleLag <= loadedOn /\ Complete(published[c][d]))
      => archive[c][d] = published[c][d]

\* Why no row freezes, step by step: nothing is stored past the last routine
\* load's end; a running load that finds rows starts where every day before it
\* had settled by that load; and what it was answered for a settled day stands.
LoadInv ==
  /\ loadedOn <= today
  /\ \A d \in Stored(archive) : d <= EndDate(loadedOn)
  /\ kind # "none" => loadedOn <= asOf /\ asOf <= today
  /\ kind = "routine" =>
       /\ to = EndDate(asOf)
       /\ Empty \/ from = 0 \/ from + SettleLag <= loadedOn + 1
  /\ kind = "backfill" => to < from \/ to <= EndDate(loadedOn)
  /\ kind # "none" =>
       \A c \in Countries, d \in Asked :
         (d < next /\ d + SettleLag <= asOf) => answers[c][d] = published[c][d]

\* In a routine load an incomplete day replaces a complete one only as a gap: Open-Meteo served
\* a complete day after it in the same load, or more incomplete days than an
\* edge may hold.  A day still arriving never does.
EdgeNeverOverwrites ==
  [][\A c \in Countries, d \in Days :
       (kind = "routine" /\ Complete(archive[c][d]) /\ ~Complete(archive'[c][d]))
         => \/ \E e \in Days : e > d /\ Complete(answers[c][e])
            \/ Cardinality({e \in Days : answers[c][e] = Partial}) > EdgeDays]_vars

\* Rows are only ever replaced: no load, finished or abandoned, loses a day.
NoDayIsLost ==
  [][\A c \in Countries, d \in Days : archive[c][d] # None => archive'[c][d] # None]_vars
==============================================================================
