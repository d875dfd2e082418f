------------------------- MODULE WeatherArchiveProofs -------------------------
(***************************************************************************)
(* What holds of the weather archive for any countries, calendar, lookback *)
(* and lags, when no backfill reaches past the watermark.                  *)
(***************************************************************************)
EXTENDS WeatherArchive, TLAPS, WellFoundedInduction, FiniteSetTheorems

IInv == TypeOK /\ LoadInv /\ SettledDaysAreCurrent

-----------------------------------------------------------------------------
\* max(weather_date) over a table with rows is one of its days.
LEMMA WatermarkIsStored ==
  ASSUME NEW T, T \subseteq Days, T # {}
  PROVE  \E d \in T : \A e \in T : e <= d
<1> DEFINE Back == {LastDay - d : d \in T}
<1>1. \A d \in T : d \in Nat /\ LastDay - d \in Nat
  BY ArchiveAssumption DEF Days
<1>2. Back \subseteq Nat
  BY <1>1
<1>3. Back # {}
  OBVIOUS
<1>4. \E x \in Back : \A y \in Back : ~(<<y, x>> \in OpToRel(<, Nat))
  <2> HIDE DEF Back
  <2> QED BY <1>2, <1>3, NatLessThanWellFounded, WFMin, Zenon
<1>5. PICK d \in T : \A e \in T : ~(<<LastDay - e, LastDay - d>> \in OpToRel(<, Nat))
  BY <1>4
<1>6. \A e \in T : ~(LastDay - e < LastDay - d)
  BY <1>1, <1>5 DEF OpToRel
<1> QED
  BY <1>1, <1>6, ArchiveAssumption

LEMMA WatermarkInStored ==
  ~Empty => Watermark \in Stored(archive)
<1> SUFFICES ASSUME ~Empty PROVE Watermark \in Stored(archive)
  OBVIOUS
<1>1. Stored(archive) \subseteq Days /\ Stored(archive) # {}
  BY DEF Stored, Empty
<1>2. \E d \in Stored(archive) : \A e \in Stored(archive) : e <= d
  BY <1>1, WatermarkIsStored
<1> QED
  BY <1>2 DEF Watermark

-----------------------------------------------------------------------------
(* Type correctness. *)

LEMMA LevelsAreNumbers ==
  /\ Levels \subseteq 0 .. 3 /\ None \in Levels
  /\ NoRows \in Rows
BY ArchiveAssumption DEF None, Partial, Preliminary, Final, NoRows, Rows

\* Neither branch of the start date falls before the first year.
LEMMA StartDateIsADay ==
  TypeOK => StartDate \in Nat
<1> SUFFICES ASSUME TypeOK PROVE StartDate \in Nat
  OBVIOUS
<1>1. CASE Empty
  <2>1. today \div YearLength \in Int
    BY ArchiveAssumption DEF TypeOK, Days
  <2>2. YearLength * ((today \div YearLength) - ColdYears + 1) \in Int
    BY <2>1, ArchiveAssumption
  <2> QED BY <1>1, <2>2 DEF StartDate, AtLeast
<1>2. CASE ~Empty
  <2>1. Watermark \in Nat
    BY <1>2, WatermarkInStored DEF Stored, Days
  <2> QED BY <1>2, <2>1, ArchiveAssumption DEF StartDate, AtLeast
<1> QED BY <1>1, <1>2

LEMMA TypeInit == Init => TypeOK
BY LevelsAreNumbers, ArchiveAssumption DEF Init, TypeOK, Days

LEMMA TypeNext == TypeOK /\ [Next]_vars => TypeOK'
<1> SUFFICES ASSUME TypeOK, [Next]_vars PROVE TypeOK'
  OBVIOUS
<1> USE LevelsAreNumbers
<1>1. ASSUME NEW c \in Countries, NEW d \in Days, NEW level \in Levels,
             Publish(c, d, level)
      PROVE  TypeOK'
  BY <1>1 DEF TypeOK, Publish, loadVars, Rows
<1>2. CASE NewDay
  BY <1>2, ArchiveAssumption DEF TypeOK, NewDay, loadVars, Days
<1>3. CASE StartRoutine
  <2>1. today \in Nat /\ EndDate(today) \in Int
    BY ArchiveAssumption DEF TypeOK, Days, EndDate
  <2>2. StartDate \in Nat
    BY StartDateIsADay
  <2> QED BY <1>3, <2>1, <2>2 DEF StartRoutine, Start, TypeOK
<1>4. ASSUME NEW years \in Backfills, StartBackfill(years) PROVE TypeOK'
  <2>1. years[1] \in Nat /\ years[2] \in Nat
    BY ArchiveAssumption
  <2>2. YearLength * years[1] \in Nat /\ YearLength * (years[2] + 1) - 1 \in Int
    BY <2>1, ArchiveAssumption
  <2>3. today \in Nat /\ EndDate(today) \in Int
    BY ArchiveAssumption DEF TypeOK, Days, EndDate
  <2>4. AtMost(EndDate(today), YearLength * (years[2] + 1) - 1) \in Int
    BY <2>2, <2>3 DEF AtMost
  <2> QED BY <1>4, <2>2, <2>3, <2>4 DEF StartBackfill, Start, TypeOK
<1>5. CASE Fetch
  <2>1. next \div YearLength \in Int
    BY ArchiveAssumption DEF TypeOK
  <2>2. YearLength * (next \div YearLength + 1) - 1 \in Int
    BY <2>1, ArchiveAssumption
  <2>3. AtMost(to, YearLength * (next \div YearLength + 1) - 1) \in Int
    BY <2>2 DEF AtMost, TypeOK
  <2>4. next' \in Int
    BY <1>5, <2>3 DEF Fetch
  <2> QED BY <1>5, <2>4 DEF Fetch, TypeOK, Rows, loadVars
<1>6. CASE Commit
  BY <1>6 DEF Commit, EndLoad, TypeOK, Rows
<1>7. CASE Abandon
  BY <1>7 DEF Abandon, EndLoad, TypeOK
<1>8. CASE UNCHANGED vars
  BY <1>8 DEF vars, TypeOK
<1> QED
  BY <1>1, <1>2, <1>3, <1>4, <1>5, <1>6, <1>7, <1>8 DEF Next

\* Every variable keeps its type, backfills past the watermark included.
THEOREM TypeCorrect == Spec => []TypeOK
BY TypeInit, TypeNext, PTL DEF Spec

-----------------------------------------------------------------------------
(* Nothing freezes. *)

LEMMA InvInit == Init => LoadInv /\ SettledDaysAreCurrent
<1> SUFFICES ASSUME Init PROVE LoadInv /\ SettledDaysAreCurrent
  OBVIOUS
<1>1. Stored(archive) = {}
  BY DEF Init, NoRows, Stored
<1>2. LoadInv
  BY <1>1 DEF Init, LoadInv
<1>3. SettledDaysAreCurrent
  BY DEF Init, NoRows, SettledDaysAreCurrent, Complete, None, Preliminary
<1> QED
  BY <1>2, <1>3

\* A revised day has not settled, so no load so far has owed its final value.
LEMMA PublishKeepsInv ==
  ASSUME IInv, NEW c \in Countries, NEW d \in Days, NEW level \in Levels,
         Publish(c, d, level)
  PROVE  LoadInv' /\ SettledDaysAreCurrent'
<1>1. /\ today \in Nat /\ asOf \in Nat /\ loadedOn \in Nat /\ SettleLag \in Nat
      /\ d \in Nat /\ loadedOn <= today
  BY SettleAssumption DEF IInv, TypeOK, LoadInv, Days
<1>2. \A b \in Countries, e \in Days :
        today >= e + SettleLag => published'[b][e] = published[b][e]
  BY <1>1, SettleAssumption DEF Publish, IInv, TypeOK, Rows, Days
<1>3. /\ Stored(archive)' = Stored(archive) /\ Empty' = Empty /\ Asked' = Asked
  BY DEF Publish, loadVars, Stored, Empty, Asked
<1>4. LoadInv'
  <2>1. ASSUME kind # "none", NEW b \in Countries, NEW e \in Asked,
               e < next, e + SettleLag <= asOf
        PROVE  answers[b][e] = published'[b][e]
    <3>1. e \in Days /\ e \in Nat /\ today >= e + SettleLag
      BY <1>1, <2>1 DEF Asked, Days, IInv, LoadInv
    <3> QED BY <1>2, <2>1, <3>1 DEF IInv, LoadInv
  <2> QED BY <1>3, <2>1 DEF LoadInv, IInv, Publish, loadVars, EndDate
<1>5. SettledDaysAreCurrent'
  <2>1. ASSUME NEW b \in Countries, NEW e \in Days, e + SettleLag <= loadedOn
        PROVE  published'[b][e] = published[b][e]
    BY <1>1, <1>2, <2>1 DEF Days
  <2> QED BY <2>1 DEF SettledDaysAreCurrent, IInv, Publish, loadVars
<1> QED
  BY <1>4, <1>5

\* A routine load that finds rows starts no later than a lookback after the
\* last load's end: what lies before had settled by then.
LEMMA StartRoutineKeepsInv ==
  ASSUME IInv, StartRoutine
  PROVE  LoadInv' /\ SettledDaysAreCurrent'
<1>1. /\ today \in Nat /\ loadedOn \in Nat /\ loadedOn <= today
      /\ SettleLag \in Nat /\ Lookback \in Nat /\ EndLag \in Nat
      /\ SettleLag <= Lookback + EndLag
  BY ArchiveAssumption, SettleAssumption DEF IInv, TypeOK, LoadInv, Days
<1>2. /\ Stored(archive)' = Stored(archive) /\ Empty' = Empty
  BY DEF StartRoutine, Start, Stored, Empty
<1>3. Empty \/ from' = 0 \/ from' + SettleLag <= loadedOn + 1
  <2> SUFFICES ASSUME ~Empty, from' # 0 PROVE from' + SettleLag <= loadedOn + 1
    OBVIOUS
  <2>1. Watermark \in Nat /\ Watermark <= loadedOn - EndLag
    BY WatermarkInStored DEF IInv, LoadInv, Stored, Days, EndDate
  <2>2. from' = Watermark - (Lookback - 1)
    BY DEF StartRoutine, Start, StartDate, AtLeast
  <2> QED BY <1>1, <2>1, <2>2
<1>4. /\ to' = EndDate(asOf)' /\ asOf' = today /\ kind' = "routine" /\ next' = from'
      /\ UNCHANGED <<today, loadedOn>>
  BY DEF StartRoutine, Start, EndDate
<1>5. \A d \in Asked' : ~(d < next')
  BY <1>4, StartDateIsADay DEF Asked, Days, StartRoutine, Start, IInv
<1>6. LoadInv'
  BY <1>1, <1>2, <1>3, <1>4, <1>5 DEF LoadInv, IInv, EndDate
<1>7. SettledDaysAreCurrent'
  BY DEF StartRoutine, Start, SettledDaysAreCurrent, IInv
<1> QED
  BY <1>6, <1>7

\* A backfill that stays behind the watermark asks for no day past the last
\* routine load's end.
LEMMA StartBackfillKeepsInv ==
  ASSUME IInv, ~JumpAhead, NEW years \in Backfills, StartBackfill(years)
  PROVE  LoadInv' /\ SettledDaysAreCurrent'
<1>1. /\ today \in Nat /\ loadedOn \in Nat /\ loadedOn <= today /\ EndLag \in Nat
  BY ArchiveAssumption DEF IInv, TypeOK, LoadInv, Days
<1>2. /\ Stored(archive)' = Stored(archive) /\ Empty' = Empty
  BY DEF StartBackfill, Start, Stored, Empty
<1>3. to' < from' \/ (~Empty /\ to' <= Watermark)
  BY DEF StartBackfill, Start
<1>4. years[1] \in Nat /\ years[2] \in Nat
  BY ArchiveAssumption
<1>5. to' \in Int
  <2>1. YearLength * (years[2] + 1) - 1 \in Int /\ EndDate(today) \in Int
    BY <1>1, <1>4, ArchiveAssumption DEF EndDate
  <2> QED BY <2>1 DEF StartBackfill, Start, AtMost
<1>6. to' < from' \/ to' <= EndDate(loadedOn)
  <2> SUFFICES ASSUME ~Empty, to' <= Watermark PROVE to' <= EndDate(loadedOn)
    BY <1>3
  <2>1. Watermark \in Nat /\ Watermark <= EndDate(loadedOn)
    BY WatermarkInStored DEF IInv, LoadInv, Stored, Days
  <2> QED BY <1>1, <1>5, <2>1 DEF EndDate
<1>7. /\ asOf' = today /\ kind' = "backfill" /\ next' = from'
      /\ UNCHANGED <<today, loadedOn>>
  BY DEF StartBackfill, Start
<1>8. \A d \in Asked' : ~(d < next')
  <2>1. from' \in Nat
    BY <1>4, ArchiveAssumption DEF StartBackfill, Start
  <2> QED BY <1>7, <2>1 DEF Asked, Days
<1>9. LoadInv'
  BY <1>1, <1>2, <1>6, <1>7, <1>8 DEF LoadInv, IInv, EndDate
<1>10. SettledDaysAreCurrent'
  BY DEF StartBackfill, Start, SettledDaysAreCurrent, IInv
<1> QED
  BY <1>9, <1>10

\* An answer for a day that had settled when the load began is the last word.
LEMMA FetchKeepsInv ==
  ASSUME IInv, Fetch
  PROVE  LoadInv' /\ SettledDaysAreCurrent'
<1> DEFINE last == AtMost(to, YearLength * (next \div YearLength + 1) - 1)
<1>1. /\ Stored(archive)' = Stored(archive) /\ Empty' = Empty /\ Asked' = Asked
  BY DEF Fetch, loadVars, Stored, Empty, Asked
<1>2. last \in Int
  <2>1. next \div YearLength \in Int
    BY ArchiveAssumption DEF IInv, TypeOK
  <2>2. YearLength * (next \div YearLength + 1) - 1 \in Int
    BY <2>1, ArchiveAssumption
  <2> QED BY <2>2 DEF AtMost, IInv, TypeOK
<1>3. next' = last + 1
  BY DEF Fetch
<1>4. ASSUME NEW c \in Countries, NEW d \in Asked, d < next', d + SettleLag <= asOf
      PROVE  answers'[c][d] = published'[c][d]
  <2>1. d \in Days /\ d \in Int /\ next \in Int
    BY DEF Asked, Days, IInv, TypeOK
  <2>2. answers'[c][d] = IF next <= d /\ d <= last THEN published[c][d]
                         ELSE answers[c][d]
    BY <2>1 DEF Fetch
  <2>3. CASE d < next
    BY <1>4, <2>1, <2>2, <2>3 DEF Fetch, IInv, LoadInv
  <2>4. CASE next <= d
    <3> HIDE DEF last
    <3>1. d <= last
      BY <1>2, <1>3, <1>4, <2>1
    <3> QED BY <2>2, <2>4, <3>1 DEF Fetch
  <2> QED BY <2>1, <2>3, <2>4
<1>5. LoadInv'
  BY <1>1, <1>4 DEF Fetch, loadVars, LoadInv, IInv, EndDate
<1>6. SettledDaysAreCurrent'
  BY DEF Fetch, loadVars, SettledDaysAreCurrent, IInv
<1> QED
  BY <1>5, <1>6

LEMMA NewDayKeepsInv ==
  ASSUME IInv, NewDay
  PROVE  LoadInv' /\ SettledDaysAreCurrent'
<1>1. /\ Stored(archive)' = Stored(archive) /\ Empty' = Empty /\ Asked' = Asked
  BY DEF NewDay, loadVars, Stored, Empty, Asked
<1>2. today \in Nat /\ today' = today + 1 /\ loadedOn \in Nat /\ asOf \in Nat
  BY DEF NewDay, IInv, TypeOK, Days
<1>3. LoadInv'
  BY <1>1, <1>2 DEF NewDay, loadVars, LoadInv, IInv, EndDate
<1>4. SettledDaysAreCurrent'
  BY DEF NewDay, SettledDaysAreCurrent, IInv
<1> QED
  BY <1>3, <1>4

LEMMA AbandonKeepsInv ==
  ASSUME IInv, Abandon
  PROVE  LoadInv' /\ SettledDaysAreCurrent'
<1>1. Stored(archive)' = Stored(archive)
  BY DEF Abandon, Stored
<1>2. LoadInv'
  BY <1>1 DEF Abandon, EndLoad, LoadInv, IInv, EndDate
<1>3. SettledDaysAreCurrent'
  BY DEF Abandon, SettledDaysAreCurrent, IInv
<1> QED
  BY <1>2, <1>3

\* A complete answer is no part of the edge, so it lands whatever else the
\* edge holds back.
LEMMA CompleteAnswersLand ==
  ASSUME TypeOK, NEW c \in Countries, NEW d \in Asked, Complete(answers[c][d])
  PROVE  Lands(c, d)
<1>1. d \in Days /\ d \in Int
  BY DEF Asked, Days
<1>2. d \notin Edge(c)
  BY <1>1 DEF Edge
<1>3. d \notin HeldBack(c)
  BY <1>2 DEF HeldBack
<1>4. answers[c][d] # None
  BY DEF Complete, None, Preliminary
<1> QED
  BY <1>3, <1>4 DEF Lands

\* What a commit changes: the rows that land, and the auxiliary dates of a
\* routine load.
LEMMA CommitKeepsInv ==
  ASSUME IInv, Commit
  PROVE  LoadInv' /\ SettledDaysAreCurrent'
<1>1. /\ loadedOn \in Nat /\ asOf \in Nat /\ from \in Nat /\ to \in Int
      /\ next \in Int /\ since \in Nat /\ today \in Nat
      /\ SettleLag \in Nat /\ EndLag \in Nat /\ EndLag <= SettleLag
  BY ArchiveAssumption, SettleAssumption DEF IInv, TypeOK, Days
<1>2. /\ kind \in {"routine", "backfill"} /\ to < next
      /\ loadedOn <= asOf /\ asOf <= today
  BY DEF Commit, Answered, IInv, TypeOK, LoadInv
<1>3. /\ kind' = "none" /\ today' = today /\ published' = published
      /\ kind = "routine" => loadedOn' = asOf /\ since' = IF Empty THEN from ELSE since
      /\ kind = "backfill" => loadedOn' = loadedOn /\ since' = since
  BY DEF Commit, EndLoad
<1>4. loadedOn' \in Nat /\ loadedOn <= loadedOn' /\ loadedOn' <= asOf
  BY <1>1, <1>2, <1>3
<1>5. \A c \in Countries, d \in Days :
        archive'[c][d] = IF Lands(c, d) THEN answers[c][d] ELSE archive[c][d]
  BY DEF Commit
<1>6. \A d \in Stored(archive)' : d <= EndDate(loadedOn')
  <2> SUFFICES ASSUME NEW d \in Days, NEW c \in Countries, archive'[c][d] # None
               PROVE  d <= loadedOn' - EndLag
    BY DEF Stored, EndDate
  <2>1. d \in Nat
    BY DEF Days
  <2>2. CASE Lands(c, d)
    <3>1. from <= d /\ d <= to
      BY <2>2 DEF Lands, Asked
    <3>2. CASE kind = "routine"
      BY <1>3, <3>1, <3>2 DEF IInv, LoadInv, EndDate
    <3>3. CASE kind = "backfill"
      BY <1>1, <1>3, <2>1, <3>1, <3>3 DEF IInv, LoadInv, EndDate
    <3> QED BY <1>2, <3>2, <3>3
  <2>3. CASE ~Lands(c, d)
    <3>1. d \in Stored(archive)
      BY <1>5, <2>3 DEF Stored
    <3>2. d <= loadedOn - EndLag
      BY <3>1 DEF IInv, LoadInv, EndDate
    <3> QED BY <1>1, <1>4, <2>1, <3>2
  <2> QED BY <2>2, <2>3
<1>7. LoadInv'
  BY <1>1, <1>2, <1>3, <1>4, <1>6 DEF LoadInv, EndDate
<1>8. SettledDaysAreCurrent'
  <2> SUFFICES ASSUME NEW c \in Countries, NEW d \in Days, since' <= d,
                      d + SettleLag <= loadedOn', Complete(published[c][d])
               PROVE  archive'[c][d] = published[c][d]
    BY <1>3 DEF SettledDaysAreCurrent
  <2>1. d \in Nat
    BY DEF Days
  <2>2. ASSUME d \in Asked PROVE archive'[c][d] = published[c][d]
    <3>1. d < next /\ d + SettleLag <= asOf
      BY <1>1, <1>2, <1>4, <2>1, <2>2 DEF Asked
    <3>2. answers[c][d] = published[c][d]
      BY <1>2, <2>2, <3>1 DEF IInv, LoadInv
    <3>3. Lands(c, d)
      BY <2>2, <3>2, CompleteAnswersLand DEF IInv
    <3> QED BY <1>5, <3>2, <3>3
  <2>3. ASSUME d \notin Asked, since <= d, d + SettleLag <= loadedOn
        PROVE  archive'[c][d] = published[c][d]
    <3>1. ~Lands(c, d)
      BY <2>3 DEF Lands
    <3> QED BY <1>5, <2>3, <3>1 DEF IInv, SettledDaysAreCurrent
  <2>4. CASE kind = "routine"
    <3>1. d <= to
      BY <1>1, <1>3, <2>1, <2>4 DEF IInv, LoadInv, EndDate
    <3>2. CASE from <= d
      BY <2>2, <3>1, <3>2 DEF Asked
    <3>3. CASE d < from
      <4>1. ~Empty
        BY <1>1, <1>3, <2>1, <2>4, <3>3
      <4>2. from + SettleLag <= loadedOn + 1
        BY <1>1, <2>1, <2>4, <3>3, <4>1 DEF IInv, LoadInv
      <4>3. since <= d /\ d + SettleLag <= loadedOn /\ d \notin Asked
        BY <1>1, <1>3, <2>1, <2>4, <3>3, <4>1, <4>2 DEF Asked
      <4> QED BY <2>3, <4>3
    <3> QED BY <1>1, <2>1, <3>2, <3>3
  <2>5. CASE kind = "backfill"
    BY <1>3, <2>2, <2>3, <2>5
  <2> QED BY <1>2, <2>4, <2>5
<1> QED
  BY <1>7, <1>8

LEMMA InvNext ==
  ASSUME ~JumpAhead
  PROVE  IInv /\ [Next]_vars => IInv'
<1> SUFFICES ASSUME IInv, [Next]_vars PROVE IInv'
  OBVIOUS
<1>1. TypeOK'
  BY TypeNext DEF IInv
<1>2. ASSUME NEW c \in Countries, NEW d \in Days, NEW level \in Levels,
             Publish(c, d, level)
      PROVE  LoadInv' /\ SettledDaysAreCurrent'
  BY <1>2, PublishKeepsInv
<1>3. ASSUME NEW years \in Backfills, StartBackfill(years)
      PROVE  LoadInv' /\ SettledDaysAreCurrent'
  BY <1>3, StartBackfillKeepsInv
<1>4. ASSUME UNCHANGED vars PROVE LoadInv' /\ SettledDaysAreCurrent'
  <2>1. /\ Stored(archive)' = Stored(archive) /\ Empty' = Empty /\ Asked' = Asked
    BY <1>4 DEF vars, Stored, Empty, Asked
  <2> QED BY <1>4, <2>1 DEF vars, IInv, LoadInv, SettledDaysAreCurrent, EndDate
<1> QED
  BY <1>1, <1>2, <1>3, <1>4, NewDayKeepsInv, StartRoutineKeepsInv, FetchKeepsInv,
     CommitKeepsInv, AbandonKeepsInv DEF Next, IInv

\* While no backfill reaches past the watermark, a day that has settled before
\* a routine load is in the archive as Open-Meteo finally served it.
THEOREM NothingFreezes ==
  ASSUME ~JumpAhead
  PROVE  Spec => []SettledDaysAreCurrent
<1>1. Init => IInv
  BY TypeInit, InvInit DEF IInv
<1>2. IInv /\ [Next]_vars => IInv'
  BY InvNext
<1>3. IInv => SettledDaysAreCurrent
  BY DEF IInv
<1> QED
  BY <1>1, <1>2, <1>3, PTL DEF Spec

-----------------------------------------------------------------------------
(* Nothing is lost. *)

\* A commit replaces rows by measured rows, and nothing else writes the table.
THEOREM RowsAreOnlyReplaced == Spec => NoDayIsLost
<1> DEFINE Kept == \A c \in Countries, d \in Days :
                     archive[c][d] # None => archive'[c][d] # None
<1>1. TypeOK /\ [Next]_vars => [Kept]_vars
  <2> SUFFICES ASSUME TypeOK, [Next]_vars PROVE Kept \/ UNCHANGED vars
    OBVIOUS
  <2>1. CASE Commit
    BY <2>1 DEF Commit, Lands
  <2>2. CASE archive' = archive
    BY <2>2
  <2> QED BY <2>1, <2>2 DEF Next, Publish, NewDay, StartRoutine, StartBackfill,
                            Start, Fetch, Abandon
<1> QED
  BY <1>1, TypeCorrect, PTL DEF Spec, NoDayIsLost

-----------------------------------------------------------------------------
(* The edge is held back. *)

\* A routine load runs to the archive's end.
EndInv == kind = "routine" => to = EndDate(asOf)

LEMMA EndInvariant == Spec => []EndInv
<1>1. Init => EndInv
  BY DEF Init, EndInv
<1>2. EndInv /\ [Next]_vars => EndInv'
  BY DEF EndInv, EndDate, Next, vars, loadVars, Publish, NewDay, StartRoutine, StartBackfill, Start,
         Fetch, Commit, EndLoad, Abandon
<1> QED
  BY <1>1, <1>2, PTL DEF Spec

\* The partly null days of the edge are among all the partly null answers.
LEMMA EdgeIsCounted ==
  ASSUME TypeOK, NEW c \in Countries
  PROVE  Cardinality({d \in Edge(c) : answers[c][d] # None})
           <= Cardinality({e \in Days : answers[c][e] = Partial})
<1> DEFINE S == {d \in Edge(c) : answers[c][d] # None}
           P == {e \in Days : answers[c][e] = Partial}
<1>1. IsFiniteSet(Days)
  BY FS_Interval, ArchiveAssumption DEF Days
<1>2. IsFiniteSet(P)
  BY <1>1, FS_Subset
<1>3. S \subseteq P
  <2> SUFFICES ASSUME NEW d \in Edge(c), answers[c][d] # None
               PROVE  d \in Days /\ answers[c][d] = Partial
    OBVIOUS
  <2>1. d \in Days /\ d \in Asked /\ d >= d
    BY DEF Edge, Asked, Days
  <2>2. ~Complete(answers[c][d])
    BY <2>1 DEF Edge
  <2>3. answers[c][d] \in 0 .. 3
    BY <2>1, LevelsAreNumbers DEF TypeOK, Rows
  <2> QED BY <2>1, <2>2, <2>3 DEF Complete, None, Partial, Preliminary
<1> QED
  BY <1>2, <1>3, FS_Subset

\* A routine load overwrites a complete row by an incomplete one only where
\* Open-Meteo has gone on past it, or dropped a variable for good.
THEOREM EdgeIsHeldBack == Spec => EdgeNeverOverwrites
<1> DEFINE Gap(c, d) == \/ \E e \in Days : e > d /\ Complete(answers[c][e])
                        \/ Cardinality({e \in Days : answers[c][e] = Partial}) > EdgeDays
           Held == \A c \in Countries, d \in Days :
                     (kind = "routine" /\ Complete(archive[c][d]) /\ ~Complete(archive'[c][d]))
                       => Gap(c, d)
<1>1. TypeOK /\ EndInv /\ [Next]_vars => [Held]_vars
  <2> SUFFICES ASSUME TypeOK, EndInv, [Next]_vars PROVE Held \/ UNCHANGED vars
    OBVIOUS
  <2>1. CASE Commit
    <3> SUFFICES ASSUME NEW c \in Countries, NEW d \in Days, kind = "routine",
                        Complete(archive[c][d]), ~Complete(archive'[c][d])
                 PROVE  Gap(c, d)
      OBVIOUS
    <3>1. Lands(c, d) /\ ~Complete(answers[c][d])
      BY <2>1 DEF Commit
    <3>2. d \in Asked /\ d \notin HeldBack(c) /\ d \in Int
      BY <3>1 DEF Lands, Days
    <3>3. AtArchiveEnd
      BY <2>1, <3>2 DEF AtArchiveEnd, EndInv, Commit, Answered, TypeOK
    <3>4. CASE d \notin Edge(c)
      <4>1. PICK e \in Asked : e >= d /\ Complete(answers[c][e])
        BY <3>2, <3>4 DEF Edge
      <4>2. e \in Days /\ e > d
        BY <3>1, <3>2, <4>1 DEF Asked, Days
      <4> QED BY <4>1, <4>2
    <3>5. CASE d \in Edge(c)
      <4> DEFINE S == {x \in Edge(c) : answers[c][x] # None}
                 P == {e \in Days : answers[c][e] = Partial}
      <4>1. ~(Cardinality(S) <= EdgeDays)
        BY <3>2, <3>3, <3>5 DEF HeldBack
      <4>2. Cardinality(S) <= Cardinality(P)
        BY EdgeIsCounted
      <4>3. Cardinality(P) \in Nat /\ Cardinality(S) \in Nat /\ EdgeDays \in Nat
        <5>1. IsFiniteSet(Days)
          BY FS_Interval, ArchiveAssumption DEF Days
        <5>2. IsFiniteSet(P) /\ IsFiniteSet(S)
          BY <5>1, FS_Subset DEF Edge, Asked
        <5> QED BY <5>2, FS_CardinalityType, ArchiveAssumption
      <4>4. Cardinality(P) > EdgeDays
        <5> HIDE DEF S, P
        <5> QED BY <4>1, <4>2, <4>3
      <4> QED BY <4>4
    <3> QED BY <3>4, <3>5
  <2>2. CASE archive' = archive
    BY <2>2
  <2> QED BY <2>1, <2>2 DEF Next, Publish, NewDay, StartRoutine, StartBackfill,
                            Start, Fetch, Abandon
<1> QED
  BY <1>1, TypeCorrect, EndInvariant, PTL DEF Spec, EdgeNeverOverwrites

=============================================================================
