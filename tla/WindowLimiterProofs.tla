------------------------- MODULE WindowLimiterProofs -------------------------
(***************************************************************************)
(* What holds of the limiter for any windows and budgets, any sizes of     *)
(* requests, latencies and pauses: no window is overspent, one sleep is    *)
(* enough, and no wait or refusal is longer or harsher than it must be.    *)
(***************************************************************************)
EXTENDS WindowLimiter, TLAPS, FiniteSetTheorems, NaturalsInduction, WellFoundedInduction,
        SequenceTheorems

------------------------------------------------------------------------------
(* Numbers, and the running totals of a sequence of them. *)

\* A nonempty set of numbers has a least.
LEMMA NatHasMin ==
  ASSUME NEW S \in SUBSET Nat, S # {}
  PROVE  Min(S) \in S /\ \A x \in S : Min(S) <= x
<1>1. IsWellFoundedOn(OpToRel(<, Nat), Nat)
  BY NatLessThanWellFounded
<1>2. PICK m \in S : \A y \in S : ~(<<y, m>> \in OpToRel(<, Nat))
  BY <1>1, WFMin
<1>3. \A y \in S : ~(y < m)
  BY <1>2 DEF OpToRel
<1>4. m \in S /\ \A y \in S : m <= y
  BY <1>3
<1> QED
  BY <1>4 DEF Min

\* Induction, for a set of numbers.
LEMMA NatIsReached ==
  ASSUME NEW S, 0 \in S, \A n \in Nat : n \in S => n + 1 \in S
  PROVE  \A n \in Nat : n \in S
<1> SUFFICES ASSUME \E n \in Nat : n \notin S PROVE FALSE
  OBVIOUS
<1> DEFINE T == {n \in Nat : n \notin S}
<1>1. T \in SUBSET Nat /\ T # {}
  OBVIOUS
<1>2. Min(T) \in T /\ \A x \in T : Min(T) <= x
  BY <1>1, NatHasMin
<1>3. Min(T) \in Nat /\ Min(T) # 0
  BY <1>2
<1>4. Min(T) - 1 \in Nat /\ (Min(T) - 1) + 1 = Min(T)
  BY <1>3
<1>5. Min(T) - 1 \in S
  BY <1>2, <1>3, <1>4
<1> QED
  BY <1>2, <1>4, <1>5

\* The sizes of sets of numbers of which none is the greatest.
Topless == {n \in Nat : \E S \in SUBSET Nat : IsFiniteSet(S) /\ S # {} /\ Cardinality(S) = n
                                              /\ \A x \in S : \E y \in S : y > x}

\* A finite set of numbers has a greatest.
LEMMA FiniteHasMax ==
  ASSUME NEW S \in SUBSET Nat, IsFiniteSet(S), S # {}
  PROVE  Max(S) \in S /\ \A x \in S : x <= Max(S)
<1>1. Topless = {}
  <2> SUFFICES ASSUME Topless # {} PROVE FALSE
    OBVIOUS
  <2>1. IsWellFoundedOn(OpToRel(<, Nat), Nat)
    BY NatLessThanWellFounded
  <2>2. PICK n \in Topless : \A m \in Topless : ~(<<m, n>> \in OpToRel(<, Nat))
    BY <2>1, WFMin DEF Topless
  <2>3. \A m \in Topless : ~(m < n)
    BY <2>2 DEF OpToRel, Topless
  <2>4. PICK T \in SUBSET Nat : IsFiniteSet(T) /\ T # {} /\ Cardinality(T) = n
                                /\ \A x \in T : \E y \in T : y > x
    BY DEF Topless
  <2>5. PICK t \in T : TRUE
    BY <2>4
  <2> DEFINE U == T \ {t}
  <2>6. IsFiniteSet(U) /\ Cardinality(U) = n - 1 /\ n \in Nat /\ n # 0
    BY <2>4, FS_RemoveElement, FS_EmptySet, FS_CardinalityType
  <2>7. U # {}
    BY <2>4
  <2>8. n - 1 \in Nat /\ n - 1 < n
    BY <2>6
  <2>9. n - 1 \notin Topless
    BY <2>3, <2>8
  <2>10. PICK m \in U : \A y \in U : ~(y > m)
    BY <2>6, <2>7, <2>8, <2>9 DEF Topless
  <2>11. m \in Nat /\ t \in Nat /\ T = U \cup {t}
    BY <2>5
  <2>12. PICK y \in T : y > m
    BY <2>4, <2>10
  <2>13. y = t
    BY <2>10, <2>12
  <2>14. \A z \in T : ~(z > t)
    BY <2>10, <2>11, <2>12, <2>13
  <2> QED
    BY <2>4, <2>5, <2>14
<1>2. Cardinality(S) \in Nat
  BY FS_CardinalityType
<1>3. PICK m \in S : \A y \in S : ~(y > m)
  BY <1>1, <1>2 DEF Topless
<1>4. \A y \in S : m >= y
  BY <1>3
<1> QED
  BY <1>3, <1>4 DEF Max

\* A sequence of numbers, and a function that is its running totals.
IsTally(v) == DOMAIN v = 1 .. Len(v) /\ Len(v) \in Nat /\ \A i \in 1 .. Len(v) : v[i] \in Nat
Accumulates(f, v) ==
  f = [n \in 0 .. Len(v) |-> IF n = 0 THEN 0 ELSE f[n - 1] + v[n]]

\* Up to any place there are running totals.
HasTotals(v, n) ==
  \E f \in [0 .. n -> Nat] : f[0] = 0 /\ \A k \in 1 .. n : f[k] = f[k - 1] + v[k]
TotalsUpTo(v) == {n \in Nat : n <= Len(v) => HasTotals(v, n)}

\* There are running totals of every sequence of numbers.
LEMMA TotalsExist ==
  ASSUME NEW v, IsTally(v)
  PROVE  \E f : Accumulates(f, v)
<1>1. 0 \in TotalsUpTo(v)
  <2> DEFINE g == [k \in 0 .. 0 |-> 0]
  <2>1. g \in [0 .. 0 -> Nat] /\ g[0] = 0 /\ \A k \in 1 .. 0 : g[k] = g[k - 1] + v[k]
    OBVIOUS
  <2>2. HasTotals(v, 0)
    BY <2>1 DEF HasTotals
  <2> QED
    BY <2>2 DEF TotalsUpTo
<1>2. ASSUME NEW n \in Nat, n \in TotalsUpTo(v) PROVE n + 1 \in TotalsUpTo(v)
  <2> SUFFICES ASSUME n + 1 <= Len(v) PROVE HasTotals(v, n + 1)
    BY DEF TotalsUpTo
  <2>1. Len(v) \in Nat /\ n <= Len(v) /\ v[n + 1] \in Nat
    BY DEF IsTally
  <2>2. PICK f \in [0 .. n -> Nat] : f[0] = 0 /\ \A k \in 1 .. n : f[k] = f[k - 1] + v[k]
    BY <1>2, <2>1 DEF TotalsUpTo, HasTotals
  <2> DEFINE g == [k \in 0 .. n + 1 |-> IF k = n + 1 THEN f[n] + v[n + 1] ELSE f[k]]
  <2>3. g \in [0 .. n + 1 -> Nat]
    BY <2>1, <2>2
  <2>4. g[0] = 0
    BY <2>2
  <2>5. \A k \in 1 .. n + 1 : g[k] = g[k - 1] + v[k]
    BY <2>2
  <2> HIDE DEF g
  <2> QED
    BY <2>3, <2>4, <2>5 DEF HasTotals
<1>3. \A n \in Nat : n \in TotalsUpTo(v)
  BY <1>1, <1>2, NatIsReached
<1>4. Len(v) \in Nat
  BY DEF IsTally
<1>5. HasTotals(v, Len(v))
  BY <1>3, <1>4 DEF TotalsUpTo
<1>6. PICK f \in [0 .. Len(v) -> Nat] : f[0] = 0 /\ \A k \in 1 .. Len(v) : f[k] = f[k - 1] + v[k]
  BY <1>5 DEF HasTotals
<1>7. f = [n \in 0 .. Len(v) |-> IF n = 0 THEN 0 ELSE f[n - 1] + v[n]]
  BY <1>4, <1>6
<1> QED
  BY <1>7 DEF Accumulates

\* What Totals is: it starts at nothing and each number is added in turn.
LEMMA TotalsAre ==
  ASSUME NEW v, IsTally(v)
  PROVE  /\ Totals(v) \in [0 .. Len(v) -> Nat]
         /\ Totals(v)[0] = 0
         /\ \A n \in 1 .. Len(v) : Totals(v)[n] = Totals(v)[n - 1] + v[n]
<1>1. Totals(v) = CHOOSE f : Accumulates(f, v)
  BY DEF Totals, Accumulates
<1>2. Accumulates(Totals(v), v)
  BY <1>1, TotalsExist
<1>3. Len(v) \in Nat /\ \A i \in 1 .. Len(v) : v[i] \in Nat
  BY DEF IsTally
<1> HIDE DEF Totals
<1> DEFINE f == Totals(v)
<1>4. /\ DOMAIN f = 0 .. Len(v)
      /\ \A n \in 0 .. Len(v) : f[n] = IF n = 0 THEN 0 ELSE f[n - 1] + v[n]
  BY <1>2 DEF Accumulates
<1> HIDE DEF f
<1>5. f[0] = 0 /\ \A n \in 1 .. Len(v) : f[n] = f[n - 1] + v[n]
  BY <1>3, <1>4
<1> DEFINE S == {n \in Nat : n <= Len(v) => f[n] \in Nat}
<1>6. 0 \in S
  BY <1>5
<1>7. ASSUME NEW n \in Nat, n \in S PROVE n + 1 \in S
  BY <1>3, <1>5, <1>7
<1>8. \A n \in Nat : n \in S
  BY <1>6, <1>7, NatIsReached
<1>9. \A n \in 0 .. Len(v) : f[n] \in Nat
  BY <1>3, <1>8
<1>10. f = [n \in 0 .. Len(v) |-> f[n]]
  BY <1>2 DEF Accumulates, f
<1>11. f \in [0 .. Len(v) -> Nat]
  BY <1>9, <1>10
<1> QED
  BY <1>5, <1>11 DEF f

\* f climbs by the numbers of v, up to N.
Climbs(f, v, N) ==
  /\ \A n \in 0 .. N : f[n] \in Nat
  /\ \A n \in 1 .. N : v[n] \in Nat /\ f[n] = f[n - 1] + v[n]

LEMMA TotalsClimb ==
  ASSUME NEW v, IsTally(v)
  PROVE  Climbs(Totals(v), v, Len(v)) /\ Totals(v)[0] = 0
<1> HIDE DEF Totals
<1> QED
  BY TotalsAre DEF Climbs, IsTally

\* Where less is added from some place on, less has been added since.
LEMMA ClimbsCompare ==
  ASSUME NEW N \in Nat, NEW f, NEW v, NEW g, NEW w, Climbs(f, v, N), Climbs(g, w, N),
         NEW k \in 0 .. N, \A j \in k + 1 .. N : w[j] <= v[j]
  PROVE  \A n \in k .. N : g[n] - g[k] <= f[n] - f[k]
<1> DEFINE S == {n \in Nat : n \in k .. N => g[n] - g[k] <= f[n] - f[k]}
<1>1. /\ \A n \in 0 .. N : f[n] \in Nat /\ g[n] \in Nat
      /\ \A n \in 1 .. N : /\ f[n] = f[n - 1] + v[n] /\ g[n] = g[n - 1] + w[n]
                           /\ v[n] \in Nat /\ w[n] \in Nat
  BY DEF Climbs
<1>2. ASSUME k = 0 PROVE 0 \in S
  BY <1>1, <1>2
<1>3. 0 \in S
  BY <1>2
<1>4. ASSUME NEW n \in Nat, n \in S PROVE n + 1 \in S
  <2> SUFFICES ASSUME n + 1 \in k .. N PROVE g[n + 1] - g[k] <= f[n + 1] - f[k]
    OBVIOUS
  <2>1. n + 1 \in 1 .. N /\ (n + 1) - 1 = n /\ n \in 0 .. N
    OBVIOUS
  <2>2. /\ f[n + 1] = f[n] + v[n + 1] /\ g[n + 1] = g[n] + w[n + 1]
        /\ f[n] \in Nat /\ g[n] \in Nat /\ f[k] \in Nat /\ g[k] \in Nat
        /\ v[n + 1] \in Nat /\ w[n + 1] \in Nat
    BY <1>1, <2>1
  <2>3. CASE n + 1 = k
    BY <2>2, <2>3
  <2>4. CASE n + 1 > k
    <3>1. n \in k .. N /\ n + 1 \in k + 1 .. N
      BY <2>1, <2>4
    <3>2. g[n] - g[k] <= f[n] - f[k] /\ w[n + 1] <= v[n + 1]
      BY <1>4, <3>1
    <3> QED
      BY <2>2, <3>2
  <2> QED
    BY <2>3, <2>4
<1>5. \A n \in Nat : n \in S
  <2> HIDE DEF S
  <2> QED
    BY <1>3, <1>4, NatIsReached
<1> QED
  BY <1>5

\* What climbs never goes down, and stays where it is while nothing is added.
LEMMA ClimbsGrow ==
  ASSUME NEW N \in Nat, NEW f, NEW v, Climbs(f, v, N), NEW k \in 0 .. N, NEW n \in k .. N
  PROVE  /\ f[k] <= f[n]
         /\ (\A j \in k + 1 .. n : v[j] = 0) => f[n] = f[k]
<1> DEFINE g == [i \in 0 .. n |-> 0]
<1> DEFINE w == [i \in 1 .. n |-> 0]
<1>1. Climbs(g, w, n) /\ Climbs(f, v, n)
  <2>1. n \in Nat /\ n <= N
    OBVIOUS
  <2>2. (\A j \in 0 .. n : g[j] \in Nat) /\ \A j \in 1 .. n : w[j] \in Nat /\ g[j] = g[j - 1] + w[j]
    BY <2>1
  <2>3. (\A j \in 0 .. N : f[j] \in Nat) /\ \A j \in 1 .. N : v[j] \in Nat /\ f[j] = f[j - 1] + v[j]
    BY DEF Climbs
  <2> HIDE DEF g, w
  <2> QED
    BY <2>1, <2>2, <2>3 DEF Climbs
<1>2. \A j \in k + 1 .. n : w[j] <= v[j]
  BY DEF Climbs
<1>3. n \in Nat /\ k \in 0 .. n /\ n \in k .. n /\ f[n] \in Nat /\ f[k] \in Nat
  BY DEF Climbs
<1>4. g[n] = 0 /\ g[k] = 0
  BY <1>3
<1> HIDE DEF g
<1>5. f[k] <= f[n]
  <2>1. g[n] - g[k] <= f[n] - f[k]
    BY <1>1, <1>2, <1>3, ClimbsCompare
  <2> QED
    BY <1>3, <1>4, <2>1
<1>6. ASSUME \A j \in k + 1 .. n : v[j] = 0 PROVE f[n] = f[k]
  <2>1. \A j \in k + 1 .. n : v[j] <= w[j]
    BY <1>3, <1>6
  <2> HIDE DEF w
  <2>2. f[n] - f[k] <= g[n] - g[k]
    BY <1>1, <1>3, <2>1, ClimbsCompare
  <2> QED
    BY <1>3, <1>4, <1>5, <2>2
<1> QED
  BY <1>5, <1>6

\* A climb taken up in the middle goes as far as the rest of it.
LEMMA ClimbsFromTheMiddle ==
  ASSUME NEW N \in Nat, NEW M \in Nat, NEW k \in Nat, N = k + M,
         NEW f, NEW v, NEW g, NEW w, Climbs(f, v, N), Climbs(g, w, M), g[0] = 0,
         \A j \in 1 .. M : w[j] = v[k + j]
  PROVE  f[N] = f[k] + g[M]
<1> DEFINE S == {n \in Nat : n <= M => f[k + n] = f[k] + g[n]}
<1>1. /\ \A n \in 0 .. N : f[n] \in Nat
      /\ \A n \in 0 .. M : g[n] \in Nat
      /\ \A n \in 1 .. N : f[n] = f[n - 1] + v[n]
      /\ \A n \in 1 .. M : g[n] = g[n - 1] + w[n] /\ w[n] \in Nat
  BY DEF Climbs
<1>2. f[k] \in Nat /\ k + 0 = k
  BY <1>1
<1>3. 0 \in S
  BY <1>2
<1>4. ASSUME NEW n \in Nat, n \in S PROVE n + 1 \in S
  <2> SUFFICES ASSUME n + 1 <= M PROVE f[k + (n + 1)] = f[k] + g[n + 1]
    OBVIOUS
  <2> DEFINE i == k + (n + 1)
  <2>1. i \in 1 .. N /\ i - 1 = k + n /\ n + 1 \in 1 .. M /\ (n + 1) - 1 = n /\ n \in 0 .. M
    OBVIOUS
  <2>2. f[i] = f[i - 1] + v[i] /\ v[i] = w[n + 1]
    BY <1>1, <2>1
  <2>3. g[n + 1] = g[n] + w[n + 1] /\ w[n + 1] \in Nat /\ g[n] \in Nat
    BY <1>1, <2>1
  <2>4. f[i - 1] = f[k] + g[n]
    BY <1>4, <2>1
  <2> HIDE DEF i
  <2>5. f[i] = f[k] + g[n + 1]
    BY <1>2, <2>2, <2>3, <2>4
  <2> QED
    BY <2>5 DEF i
<1>5. \A n \in Nat : n \in S
  <2> HIDE DEF S
  <2> QED
    BY <1>3, <1>4, NatIsReached
<1> QED
  BY <1>5

------------------------------------------------------------------------------
(* The deque. *)

\* Charges, oldest first, none later than now.
Deque(q, now) ==
  /\ q \in Seq(Charges)
  /\ \A i \in 1 .. Len(q) : q[i].at <= now
  /\ \A i, j \in 1 .. Len(q) : i <= j => q[i].at <= q[j].at

\* What each charge counts for in a window can be totalled.
LEMMA CountsClimb ==
  ASSUME NEW q \in Seq(Charges), NEW window \in Nat, NEW now \in Nat
  PROVE  /\ Len(q) \in Nat /\ Len(Counts(q, window, now)) = Len(q)
         /\ Climbs(Totals(Counts(q, window, now)), Counts(q, window, now), Len(q))
         /\ Totals(Counts(q, window, now))[0] = 0
         /\ SpentWithin(q, window, now) = Totals(Counts(q, window, now))[Len(q)]
         /\ SpentWithin(q, window, now) \in Nat
         /\ \A i \in 1 .. Len(q) : /\ q[i].at \in Nat /\ q[i].units \in Nat \ {0}
                                   /\ Counts(q, window, now)[i] =
                                        IF now - q[i].at < window THEN q[i].units ELSE 0
<1> DEFINE v == Counts(q, window, now)
<1>1. /\ Len(q) \in Nat
      /\ \A i \in 1 .. Len(q) : q[i].at \in Nat /\ q[i].units \in Nat \ {0}
  <2>1. Len(q) \in Nat /\ \A i \in 1 .. Len(q) : q[i] \in Charges
    BY ElementOfSeq, LenProperties
  <2> QED
    BY <2>1 DEF Charges
<1>2. v \in [1 .. Len(q) -> Nat]
  BY <1>1 DEF Counts
<1>3. v \in Seq(Nat) /\ Len(v) = Len(q) /\ DOMAIN v = 1 .. Len(q)
  BY <1>1, <1>2
<1>4. \A i \in 1 .. Len(q) : v[i] = IF now - q[i].at < window THEN q[i].units ELSE 0
  BY DEF Counts
<1>5. SpentWithin(q, window, now) = Totals(v)[Len(q)]
  BY DEF SpentWithin
<1> HIDE DEF v
<1>6. IsTally(v)
  BY <1>1, <1>2, <1>3 DEF IsTally
<1>7. Climbs(Totals(v), v, Len(q)) /\ Totals(v)[0] = 0
  BY <1>3, <1>6, TotalsClimb
<1>8. Totals(v)[Len(q)] \in Nat
  BY <1>1, <1>7 DEF Climbs
<1> QED
  BY <1>1, <1>3, <1>4, <1>5, <1>7, <1>8 DEF v

\* Time only takes charges out of a window.
LEMMA LaterHoldsLess ==
  ASSUME NEW q \in Seq(Charges), NEW window \in Nat, NEW now \in Nat, NEW later \in Nat,
         now <= later
  PROVE  SpentWithin(q, window, later) <= SpentWithin(q, window, now)
<1> DEFINE v == Counts(q, window, now)
<1> DEFINE w == Counts(q, window, later)
<1> DEFINE f == Totals(v)
<1> DEFINE g == Totals(w)
<1>1. /\ Len(q) \in Nat /\ Climbs(f, v, Len(q)) /\ Climbs(g, w, Len(q)) /\ f[0] = 0 /\ g[0] = 0
      /\ SpentWithin(q, window, now) = f[Len(q)] /\ SpentWithin(q, window, later) = g[Len(q)]
      /\ f[Len(q)] \in Nat /\ g[Len(q)] \in Nat
  BY CountsClimb
<1>2. \A j \in 1 .. Len(q) : w[j] <= v[j]
  <2> TAKE j \in 1 .. Len(q)
  <2>1. q[j].at \in Nat /\ q[j].units \in Nat
    BY CountsClimb
  <2>2. v[j] = IF now - q[j].at < window THEN q[j].units ELSE 0
    BY CountsClimb
  <2>3. w[j] = IF later - q[j].at < window THEN q[j].units ELSE 0
    BY CountsClimb
  <2> HIDE DEF v, w
  <2> QED
    BY <2>1, <2>2, <2>3
<1> HIDE DEF f, g, v, w
<1>3. 0 \in 0 .. Len(q) /\ 0 + 1 = 1 /\ Len(q) \in 0 .. Len(q)
  BY <1>1
<1>4. g[Len(q)] - g[0] <= f[Len(q)] - f[0]
  BY <1>1, <1>2, <1>3, ClimbsCompare
<1> QED
  BY <1>1, <1>4

\* q is what is left of h without its first k charges.
TailFrom(q, h, k) ==
  /\ q \in Seq(Charges) /\ h \in Seq(Charges) /\ k \in Nat /\ Len(h) = k + Len(q)
  /\ \A i \in 1 .. Len(q) : q[i] = h[k + i]

\* Charges that no longer count can be forgotten from the front.
LEMMA OldChargesCountForNothing ==
  ASSUME NEW q, NEW h, NEW k, TailFrom(q, h, k), NEW window \in Nat, NEW now \in Nat,
         \A i \in 1 .. k : now - h[i].at >= window
  PROVE  SpentWithin(q, window, now) = SpentWithin(h, window, now)
<1> DEFINE v == Counts(h, window, now)
<1> DEFINE w == Counts(q, window, now)
<1> DEFINE f == Totals(v)
<1> DEFINE g == Totals(w)
<1>0. /\ q \in Seq(Charges) /\ h \in Seq(Charges) /\ k \in Nat /\ Len(h) = k + Len(q)
      /\ \A i \in 1 .. Len(q) : q[i] = h[k + i]
  BY DEF TailFrom
<1>1. /\ Len(h) \in Nat /\ Climbs(f, v, Len(h)) /\ f[0] = 0
      /\ SpentWithin(h, window, now) = f[Len(h)] /\ f[Len(h)] \in Nat
  BY <1>0, CountsClimb
<1>2. \A i \in 1 .. Len(h) : /\ v[i] = IF now - h[i].at < window THEN h[i].units ELSE 0
                             /\ h[i].at \in Nat
  <2>1. h \in Seq(Charges)
    BY <1>0
  <2> QED
    BY <2>1, CountsClimb
<1>3. /\ Len(q) \in Nat /\ Climbs(g, w, Len(q)) /\ g[0] = 0
      /\ SpentWithin(q, window, now) = g[Len(q)] /\ g[Len(q)] \in Nat
  BY <1>0, CountsClimb
<1>4. \A i \in 1 .. Len(q) : w[i] = IF now - q[i].at < window THEN q[i].units ELSE 0
  BY <1>0, CountsClimb
<1> HIDE DEF f, g, v, w
<1>5. \A j \in 1 .. Len(q) : w[j] = v[k + j]
  <2> TAKE j \in 1 .. Len(q)
  <2>1. k + j \in 1 .. Len(h)
    BY <1>0, <1>3
  <2> QED
    BY <1>0, <1>2, <1>4, <2>1
<1>6. \A j \in 1 .. k : v[j] = 0
  <2> TAKE j \in 1 .. k
  <2>1. j \in 1 .. Len(h)
    BY <1>0, <1>3
  <2> QED
    BY <1>2, <2>1
<1>7. f[k] = 0
  <2>1. 0 \in 0 .. Len(h) /\ k \in 0 .. Len(h) /\ 0 + 1 = 1
    BY <1>0, <1>1, <1>3
  <2> QED
    BY <1>1, <1>6, <2>1, ClimbsGrow
<1>8. f[Len(h)] = f[k] + g[Len(q)]
  <2>1. \A N, M \in Nat :
          (N = k + M /\ Climbs(f, v, N) /\ Climbs(g, w, M) /\ (\A j \in 1 .. M : w[j] = v[k + j]))
            => f[N] = f[k] + g[M]
    BY <1>0, <1>3, ClimbsFromTheMiddle
  <2> QED
    BY <1>0, <1>1, <1>3, <1>5, <2>1
<1> QED
  BY <1>1, <1>3, <1>7, <1>8

\* A charge counts in full, on top of what counted before it, until it leaves the window.
LEMMA ChargeCounts ==
  ASSUME NEW q \in Seq(Charges), NEW c \in Charges, NEW window \in Nat, NEW now \in Nat
  PROVE  SpentWithin(Append(q, c), window, now) =
           SpentWithin(q, window, now) + (IF now - c.at < window THEN c.units ELSE 0)
<1> DEFINE p == Append(q, c)
<1> DEFINE v == Counts(q, window, now)
<1> DEFINE w == Counts(p, window, now)
<1> DEFINE f == Totals(v)
<1> DEFINE g == Totals(w)
<1>1. c.at \in Nat /\ c.units \in Nat
  BY DEF Charges
<1>2. /\ p \in Seq(Charges) /\ Len(p) = Len(q) + 1 /\ p[Len(p)] = c
      /\ \A i \in 1 .. Len(q) : p[i] = q[i]
  OBVIOUS
<1>3. /\ Len(q) \in Nat /\ Climbs(f, v, Len(q)) /\ f[0] = 0
      /\ SpentWithin(q, window, now) = f[Len(q)] /\ f[Len(q)] \in Nat
  BY <1>1, CountsClimb
<1>4. \A i \in 1 .. Len(q) : v[i] = IF now - q[i].at < window THEN q[i].units ELSE 0
  BY <1>1, CountsClimb
<1> HIDE DEF p
<1>5. /\ Climbs(g, w, Len(p)) /\ g[0] = 0
      /\ SpentWithin(p, window, now) = g[Len(p)]
  BY <1>1, <1>2, CountsClimb
<1>6. \A i \in 1 .. Len(p) : w[i] = IF now - p[i].at < window THEN p[i].units ELSE 0
  BY <1>1, <1>2, CountsClimb
<1> HIDE DEF f, g, v, w
<1>7. Climbs(g, w, Len(q)) /\ g[Len(p)] = g[Len(q)] + w[Len(p)] /\ g[Len(q)] \in Nat
  BY <1>2, <1>3, <1>5 DEF Climbs
<1>8. \A i \in 1 .. Len(q) : v[i] = w[i] /\ v[i] \in Nat
  <2> TAKE i \in 1 .. Len(q)
  <2>1. i \in 1 .. Len(p) /\ p[i] = q[i]
    BY <1>2, <1>3
  <2>2. v[i] = w[i]
    BY <1>4, <1>6, <2>1
  <2> QED
    BY <1>3, <2>2 DEF Climbs
<1>9. f[Len(q)] = g[Len(q)]
  <2>1. 0 \in 0 .. Len(q) /\ 0 + 1 = 1 /\ Len(q) \in 0 .. Len(q)
    BY <1>3
  <2>2. (\A i \in 1 .. Len(q) : v[i] <= w[i]) /\ (\A i \in 1 .. Len(q) : w[i] <= v[i])
    BY <1>8
  <2>3. f[Len(q)] - f[0] <= g[Len(q)] - g[0]
    BY <1>3, <1>7, <2>1, <2>2, ClimbsCompare
  <2>4. g[Len(q)] - g[0] <= f[Len(q)] - f[0]
    BY <1>3, <1>7, <2>1, <2>2, ClimbsCompare
  <2> QED
    BY <1>3, <1>5, <1>7, <2>3, <2>4
<1>10. w[Len(p)] = IF now - c.at < window THEN c.units ELSE 0
  <2>1. Len(p) \in 1 .. Len(p) /\ p[Len(p)] = c
    BY <1>2, <1>3
  <2> QED
    BY <1>2, <1>6, <2>1
<1> QED
  BY <1>3, <1>5, <1>7, <1>9, <1>10 DEF p

------------------------------------------------------------------------------
(* The waits. *)

\* What may still be outstanding for a request to fit.
Target(limit, units) == IF units < limit.budget THEN limit.budget - units ELSE 0

HasRoom(q, limit, units, at) ==
  \/ SpentWithin(q, limit.window, at) + units <= limit.budget
  \/ SpentWithin(q, limit.window, at) = 0

\* Charge i of the deque is the one whose expiry makes the room.
IsDecisive(q, limit, units, now, i) ==
  LET total  == Totals(Counts(q, limit.window, now))
  IN  /\ now - q[i].at < limit.window
      /\ total[Len(q)] - total[i] <= Target(limit, units)
      /\ total[Len(q)] - total[i - 1] > Target(limit, units)

\* A window asks for no wait when there is room, and else for the wait until the decisive
\* charge ages out.
LEMMA WaitsForTheDecisive ==
  ASSUME NEW q \in Seq(Charges), NEW limit \in Limits, NEW units \in Nat \ {0}, NEW now \in Nat
  PROVE  \/ WindowDelay(q, limit, units, now) = 0 /\ HasRoom(q, limit, units, now)
         \/ /\ SpentWithin(q, limit.window, now) + units > limit.budget
            /\ \E i \in 1 .. Len(q) :
                 /\ IsDecisive(q, limit, units, now, i)
                 /\ WindowDelay(q, limit, units, now) = q[i].at + limit.window - now
<1> DEFINE v == Counts(q, limit.window, now)
<1> DEFINE f == Totals(v)
<1> DEFINE n == Len(q)
<1> DEFINE target == Target(limit, units)
<1> DEFINE drained == Drained(q, limit.window, now, target)
<1>1. limit.window \in Nat \ {0} /\ limit.budget \in Nat \ {0} /\ target \in Nat
  BY LimitsAssumption DEF Target
<1>2. /\ n \in Nat /\ Climbs(f, v, n) /\ f[0] = 0
      /\ SpentWithin(q, limit.window, now) = f[n] /\ f[n] \in Nat
  BY <1>1, CountsClimb
<1>3. \A i \in 1 .. n : /\ v[i] = IF now - q[i].at < limit.window THEN q[i].units ELSE 0
                        /\ q[i].at \in Nat /\ q[i].units \in Nat \ {0}
  BY <1>1, CountsClimb
<1>4. drained = {i \in 1 .. n : now - q[i].at < limit.window /\ f[n] - f[i] <= target}
  BY DEF Drained
<1>5. WindowDelay(q, limit, units, now) =
        IF f[n] + units <= limit.budget \/ drained = {} THEN 0
        ELSE q[Min(drained)].at + limit.window - now
  BY <1>2 DEF WindowDelay, Target
<1>6. \A i \in 1 .. n : IsDecisive(q, limit, units, now, i)
                          <=> /\ now - q[i].at < limit.window
                              /\ f[n] - f[i] <= target /\ f[n] - f[i - 1] > target
  BY DEF IsDecisive
<1>7. /\ (f[n] + units <= limit.budget \/ f[n] = 0) => HasRoom(q, limit, units, now)
      /\ target = IF units < limit.budget THEN limit.budget - units ELSE 0
  BY <1>2 DEF HasRoom, Target
<1> HIDE DEF v, f, n, target, drained
<1>8. \A i \in 0 .. n : f[i] \in Nat /\ f[i] <= f[n]
  <2> TAKE i \in 0 .. n
  <2>1. n \in i .. n
    BY <1>2
  <2>2. f[i] <= f[n]
    BY <1>2, <2>1, ClimbsGrow
  <2> QED
    BY <1>2, <2>2 DEF Climbs
<1>9. CASE f[n] + units <= limit.budget
  BY <1>5, <1>7, <1>9
<1>10. CASE f[n] + units > limit.budget
  <2> DEFINE J == {i \in 0 .. n : f[n] - f[i] <= target}
  <2>1. n \in J
    BY <1>1, <1>2
  <2>2. Min(J) \in J /\ \A i \in J : Min(J) <= i
    <3>1. J \in SUBSET Nat /\ J # {}
      BY <2>1
    <3> QED
      BY <3>1, NatHasMin
  <2> DEFINE i == Min(J)
  <2>3. CASE i = 0
    <3>1. f[n] = 0
      BY <1>1, <1>2, <1>7, <1>10, <2>2, <2>3
    <3>2. drained = {}
      <4> SUFFICES ASSUME NEW d \in drained PROVE FALSE
        OBVIOUS
      <4>1. d \in 1 .. n /\ v[d] \in Nat \ {0}
        BY <1>3, <1>4
      <4>2. f[d] = f[d - 1] + v[d] /\ f[d] \in Nat /\ f[d - 1] \in Nat /\ f[d] <= f[n]
        BY <1>2, <1>8, <4>1 DEF Climbs
      <4> QED
        BY <3>1, <4>1, <4>2
    <3> QED
      BY <1>5, <1>7, <3>1, <3>2
  <2>4. CASE i # 0
    <3>1. i \in 1 .. n /\ f[n] - f[i] <= target
      BY <1>2, <2>2, <2>4
    <3> HIDE DEF i
    <3>2. f[n] - f[i - 1] > target
      <4>1. i - 1 \notin J /\ i - 1 \in 0 .. n
        BY <1>2, <2>2, <3>1 DEF i
      <4> QED
        BY <1>1, <1>2, <1>8, <4>1
    <3>3. f[i] = f[i - 1] + v[i] /\ f[i] \in Nat /\ f[i - 1] \in Nat /\ v[i] \in Nat
      BY <1>2, <1>8, <3>1 DEF Climbs
    <3>4. v[i] # 0
      BY <1>1, <1>2, <3>1, <3>2, <3>3
    <3>5. now - q[i].at < limit.window
      BY <1>3, <3>1, <3>4
    <3>6. i \in drained /\ drained \in SUBSET Nat /\ \A d \in drained : d \in J
      BY <1>2, <1>4, <3>1, <3>5
    <3>7. \A d \in drained : i <= d
      BY <2>2, <3>6 DEF i
    <3>8. Min(drained) \in drained /\ \A d \in drained : Min(drained) <= d
      BY <3>6, NatHasMin
    <3>9. Min(drained) = i
      BY <1>2, <1>4, <3>1, <3>6, <3>7, <3>8
    <3>10. IsDecisive(q, limit, units, now, i)
      BY <1>6, <3>1, <3>2, <3>5
    <3>11. ~(f[n] + units <= limit.budget)
      BY <1>1, <1>2, <1>10
    <3>12. WindowDelay(q, limit, units, now) = q[i].at + limit.window - now
      BY <1>5, <3>6, <3>9, <3>11
    <3>13. SpentWithin(q, limit.window, now) + units > limit.budget /\ i \in 1 .. Len(q)
      BY <1>2, <1>10, <3>1 DEF n
    <3> QED
      BY <3>10, <3>12, <3>13
  <2> QED
    BY <2>3, <2>4
<1>11. f[n] + units <= limit.budget \/ f[n] + units > limit.budget
  BY <1>1, <1>2
<1> QED
  BY <1>9, <1>10, <1>11

\* Once a window's wait is over there is room in it.
LEMMA WaitMakesRoom ==
  ASSUME NEW q, NEW now \in Nat, Deque(q, now), NEW limit \in Limits, NEW units \in Nat \ {0},
         NEW later \in Nat, later >= now, later >= now + WindowDelay(q, limit, units, now)
  PROVE  HasRoom(q, limit, units, later)
<1> DEFINE v == Counts(q, limit.window, now)
<1> DEFINE w == Counts(q, limit.window, later)
<1> DEFINE f == Totals(v)
<1> DEFINE g == Totals(w)
<1> DEFINE n == Len(q)
<1>1. limit.window \in Nat \ {0} /\ limit.budget \in Nat \ {0} /\ q \in Seq(Charges)
  BY LimitsAssumption DEF Deque
<1>2. SpentWithin(q, limit.window, later) \in Nat /\ SpentWithin(q, limit.window, now) \in Nat
  BY <1>1, CountsClimb
<1>3. CASE HasRoom(q, limit, units, now)
  <2>1. SpentWithin(q, limit.window, later) <= SpentWithin(q, limit.window, now)
    BY <1>1, LaterHoldsLess
  <2> QED
    BY <1>1, <1>2, <1>3, <2>1 DEF HasRoom
<1>4. ASSUME NEW i \in 1 .. Len(q), IsDecisive(q, limit, units, now, i),
             WindowDelay(q, limit, units, now) = q[i].at + limit.window - now
      PROVE  HasRoom(q, limit, units, later)
  <2>1. /\ n \in Nat /\ Climbs(f, v, n) /\ Climbs(g, w, n) /\ g[0] = 0
        /\ SpentWithin(q, limit.window, later) = g[n]
    BY <1>1, CountsClimb
  <2>2. \A j \in 1 .. n : /\ v[j] = IF now - q[j].at < limit.window THEN q[j].units ELSE 0
                          /\ q[j].at \in Nat /\ q[j].units \in Nat
    BY <1>1, CountsClimb
  <2>3. \A j \in 1 .. n : w[j] = IF later - q[j].at < limit.window THEN q[j].units ELSE 0
    BY <1>1, CountsClimb
  <2>4. f[n] - f[i] <= Target(limit, units)
    BY <1>4 DEF IsDecisive
  <2>5. \A j \in 1 .. n : j <= i => q[j].at <= q[i].at
    BY <1>4 DEF Deque
  <2> HIDE DEF v, w, f, g, n
  <2>6. i \in 1 .. n
    BY DEF n
  <2>7. later >= q[i].at + limit.window
    BY <1>1, <1>4, <2>2, <2>6
  <2>8. \A j \in 1 .. i : w[j] = 0
    <3> TAKE j \in 1 .. i
    <3>1. j \in 1 .. n /\ j <= i
      BY <2>1, <2>6
    <3>2. q[j].at <= q[i].at /\ q[j].at \in Nat /\ q[i].at \in Nat
      BY <2>2, <2>5, <2>6, <3>1
    <3>3. ~(later - q[j].at < limit.window)
      BY <1>1, <2>7, <3>2
    <3> QED
      BY <2>3, <3>1, <3>3
  <2>9. g[i] = 0
    <3>1. 0 \in 0 .. n /\ i \in 0 .. n /\ 0 + 1 = 1
      BY <2>1, <2>6
    <3> QED
      BY <2>1, <2>8, <3>1, ClimbsGrow
  <2>10. \A j \in i + 1 .. n : w[j] <= v[j]
    <3> TAKE j \in i + 1 .. n
    <3>1. j \in 1 .. n
      BY <2>1, <2>6
    <3> QED
      BY <1>1, <2>2, <2>3, <3>1
  <2>11. g[n] - g[i] <= f[n] - f[i]
    <3>1. i \in 0 .. n /\ n \in i .. n
      BY <2>1, <2>6
    <3> QED
      BY <2>1, <2>10, <3>1, ClimbsCompare
  <2>12. f[n] \in Nat /\ f[i] \in Nat /\ g[n] \in Nat
    BY <2>1, <2>6 DEF Climbs
  <2>13. Target(limit, units) \in Nat /\ g[n] <= Target(limit, units)
    BY <1>1, <2>4, <2>9, <2>11, <2>12 DEF Target
  <2>14. g[n] + units <= limit.budget \/ g[n] = 0
    BY <1>1, <2>12, <2>13 DEF Target
  <2> QED
    BY <2>1, <2>14 DEF HasRoom
<1> QED
  BY <1>1, <1>3, <1>4, WaitsForTheDecisive

\* Before a window's wait is over there is none.
LEMMA NoRoomBeforeTheWait ==
  ASSUME NEW q, NEW now \in Nat, Deque(q, now), NEW limit \in Limits, NEW units \in Nat \ {0},
         NEW sooner \in Nat, sooner >= now, sooner < now + WindowDelay(q, limit, units, now)
  PROVE  ~HasRoom(q, limit, units, sooner)
<1> DEFINE v == Counts(q, limit.window, now)
<1> DEFINE w == Counts(q, limit.window, sooner)
<1> DEFINE f == Totals(v)
<1> DEFINE g == Totals(w)
<1> DEFINE n == Len(q)
<1>1. limit.window \in Nat \ {0} /\ limit.budget \in Nat \ {0} /\ q \in Seq(Charges)
  BY LimitsAssumption DEF Deque
<1>2. WindowDelay(q, limit, units, now) # 0
  OBVIOUS
<1>3. PICK i \in 1 .. Len(q) : /\ IsDecisive(q, limit, units, now, i)
                               /\ WindowDelay(q, limit, units, now) = q[i].at + limit.window - now
  BY <1>1, <1>2, WaitsForTheDecisive
<1>4. /\ n \in Nat /\ Climbs(f, v, n) /\ Climbs(g, w, n)
      /\ SpentWithin(q, limit.window, sooner) = g[n]
  BY <1>1, CountsClimb
<1>5. \A j \in 1 .. n : /\ v[j] = IF now - q[j].at < limit.window THEN q[j].units ELSE 0
                        /\ q[j].at \in Nat /\ q[j].units \in Nat
  BY <1>1, CountsClimb
<1>6. \A j \in 1 .. n : w[j] = IF sooner - q[j].at < limit.window THEN q[j].units ELSE 0
  BY <1>1, CountsClimb
<1>7. f[n] - f[i - 1] > Target(limit, units)
  BY <1>3 DEF IsDecisive
<1>8. \A j \in 1 .. n : i <= j => q[i].at <= q[j].at
  BY DEF Deque
<1> HIDE DEF v, w, f, g, n
<1>9. i \in 1 .. n /\ i - 1 \in 0 .. n /\ n \in i - 1 .. n
  BY <1>4 DEF n
<1>10. sooner < q[i].at + limit.window
  BY <1>1, <1>3, <1>5, <1>9
<1>11. \A j \in (i - 1) + 1 .. n : v[j] <= w[j]
  <2> TAKE j \in (i - 1) + 1 .. n
  <2>1. j \in 1 .. n /\ i <= j
    BY <1>4, <1>9
  <2>2. q[i].at <= q[j].at /\ q[j].at \in Nat /\ q[i].at \in Nat /\ q[j].units \in Nat
    BY <1>5, <1>8, <1>9, <2>1
  <2>3. sooner - q[j].at < limit.window
    <3> DEFINE first == q[i].at
    <3> DEFINE later == q[j].at
    <3>1. first \in Nat /\ later \in Nat /\ first <= later /\ sooner < first + limit.window
      BY <1>10, <2>2
    <3> HIDE DEF first, later
    <3>2. sooner - later < limit.window
      BY <1>1, <3>1
    <3> QED
      BY <3>2 DEF later
  <2>4. w[j] = q[j].units
    BY <1>6, <2>1, <2>3
  <2>5. v[j] = q[j].units \/ v[j] = 0
    BY <1>5, <2>1
  <2> QED
    BY <2>2, <2>4, <2>5
<1>12. f[n] - f[i - 1] <= g[n] - g[i - 1]
  BY <1>4, <1>9, <1>11, ClimbsCompare
<1>13. f[n] \in Nat /\ f[i - 1] \in Nat /\ g[n] \in Nat /\ g[i - 1] \in Nat
  BY <1>4, <1>9 DEF Climbs
<1>14. g[n] > Target(limit, units)
  <2>1. Target(limit, units) \in Nat
    BY <1>1 DEF Target
  <2> QED
    BY <1>7, <1>12, <1>13, <2>1
<1>15. ~(g[n] + units <= limit.budget) /\ g[n] # 0
  BY <1>1, <1>13, <1>14 DEF Target
<1> QED
  BY <1>4, <1>15 DEF HasRoom

\* No window waits for ever, or for less than nothing.
LEMMA WaitsAreNatural ==
  ASSUME NEW q, NEW now \in Nat, Deque(q, now), NEW limit \in Limits, NEW units \in Nat \ {0}
  PROVE  WindowDelay(q, limit, units, now) \in Nat
<1>1. limit.window \in Nat \ {0} /\ q \in Seq(Charges)
  BY LimitsAssumption DEF Deque
<1>2. ASSUME NEW i \in 1 .. Len(q), IsDecisive(q, limit, units, now, i)
      PROVE  q[i].at + limit.window - now \in Nat
  <2>1. q[i].at \in Nat
    BY <1>1, CountsClimb
  <2>2. now - q[i].at < limit.window
    BY <1>2 DEF IsDecisive
  <2> QED
    BY <1>1, <2>1, <2>2
<1> QED
  BY <1>1, <1>2, WaitsForTheDecisive

\* The limiter waits as long as the window that asks for the longest wait.
LEMMA DelayIsTheLongest ==
  ASSUME NEW q, NEW now \in Nat, Deque(q, now), NEW units \in Nat \ {0}
  PROVE  /\ Delay(q, units, now) \in Nat
         /\ \A l \in Limits : WindowDelay(q, l, units, now) <= Delay(q, units, now)
         /\ \E l \in Limits : WindowDelay(q, l, units, now) = Delay(q, units, now)
<1> DEFINE f == [l \in Limits |-> WindowDelay(q, l, units, now)]
<1> DEFINE waits == {WindowDelay(q, l, units, now) : l \in Limits}
<1>1. \A l \in Limits : WindowDelay(q, l, units, now) \in Nat
  BY WaitsAreNatural
<1>2. waits \in SUBSET Nat /\ waits # {}
  BY <1>1, LimitsAssumption
<1>3. IsFiniteSet(waits)
  <2>1. f \in Surjection(Limits, waits)
    BY DEF Surjection
  <2> QED
    BY <2>1, LimitsAssumption, FS_Surjection
<1>4. Max(waits) \in waits /\ \A x \in waits : x <= Max(waits)
  BY <1>2, <1>3, FiniteHasMax
<1>5. Delay(q, units, now) = Max(waits)
  BY DEF Delay
<1> QED
  BY <1>1, <1>4, <1>5

\* The widest window is one of them, and none is wider.
Widest == Max(Windows)

LEMMA WidestIsOne ==
  Widest \in Nat \ {0} /\ \A l \in Limits : l.window <= Widest
<1> DEFINE f == [l \in Limits |-> l.window]
<1>1. \A l \in Limits : l.window \in Nat \ {0}
  BY LimitsAssumption
<1>2. Windows \in SUBSET Nat /\ Windows # {} /\ 0 \notin Windows
  BY <1>1, LimitsAssumption DEF Windows
<1>3. IsFiniteSet(Windows)
  <2>1. f \in Surjection(Limits, Windows)
    BY DEF Surjection, Windows
  <2> QED
    BY <2>1, LimitsAssumption, FS_Surjection
<1>4. Widest \in Windows /\ \A x \in Windows : x <= Widest
  BY <1>2, <1>3, FiniteHasMax DEF Widest
<1> QED
  BY <1>2, <1>4 DEF Windows

\* Trimming leaves a tail, and only charges no window counts are gone from it.
LEMMA TrimLeavesATail ==
  ASSUME NEW q \in Seq(Charges), NEW now \in Nat
  PROVE  \E k \in Nat : TailFrom(Trim(q, now), q, k) /\ \A i \in 1 .. k : now - q[i].at >= Widest
<1> DEFINE young == {i \in DOMAIN q : now - q[i].at < Widest}
<1>1. Len(q) \in Nat /\ DOMAIN q = 1 .. Len(q) /\ Widest \in Nat
  BY LenProperties, WidestIsOne
<1>2. \A i \in 1 .. Len(q) : q[i] \in Charges /\ q[i].at \in Nat
  <2>1. \A i \in 1 .. Len(q) : q[i] \in Charges
    BY ElementOfSeq
  <2> QED
    BY <2>1 DEF Charges
<1>3. Trim(q, now) = IF young = {} THEN <<>> ELSE SubSeq(q, Min(young), Len(q))
  BY DEF Trim, Widest
<1>4. \A i \in 1 .. Len(q) : i \notin young => now - q[i].at >= Widest
  BY <1>1, <1>2
<1>5. CASE young = {}
  <2>1. TailFrom(<<>>, q, Len(q))
    BY <1>1 DEF TailFrom
  <2>2. \A i \in 1 .. Len(q) : now - q[i].at >= Widest
    BY <1>4, <1>5
  <2> QED
    BY <1>1, <1>3, <1>5, <2>1, <2>2
<1>6. CASE young # {}
  <2> DEFINE m == Min(young)
  <2>1. young \in SUBSET Nat
    BY <1>1
  <2>2. m \in young /\ \A i \in young : m <= i
    BY <1>6, <2>1, NatHasMin
  <2>3. m \in 1 .. Len(q)
    BY <1>1, <2>2
  <2> HIDE DEF m, young
  <2>4. /\ SubSeq(q, m, Len(q)) \in Seq(Charges) /\ Len(SubSeq(q, m, Len(q))) = Len(q) - m + 1
        /\ \A i \in 1 .. Len(q) - m + 1 : SubSeq(q, m, Len(q))[i] = q[m + i - 1]
    <3>1. \A i \in m .. Len(q) : q[i] \in Charges
      BY <1>1, <1>2, <2>3
    <3>2. m \in Int /\ Len(q) \in Int /\ m <= Len(q)
      BY <1>1, <2>3
    <3> QED
      BY <3>1, <3>2, SubSeqProperties
  <2>5. TailFrom(SubSeq(q, m, Len(q)), q, m - 1)
    BY <1>1, <2>3, <2>4 DEF TailFrom
  <2>6. \A i \in 1 .. m - 1 : now - q[i].at >= Widest
    <3> TAKE i \in 1 .. m - 1
    <3>1. i \in 1 .. Len(q) /\ ~(m <= i)
      BY <1>1, <2>3
    <3> QED
      BY <1>4, <2>2, <3>1
  <2>7. Trim(q, now) = SubSeq(q, m, Len(q))
    BY <1>3, <1>6 DEF m
  <2>8. m - 1 \in Nat
    BY <2>3
  <2> QED
    BY <2>5, <2>6, <2>7, <2>8
<1> QED
  BY <1>5, <1>6

\* The tail of a tail is a tail.
LEMMA TailsCompose ==
  ASSUME NEW r, NEW q, NEW h, NEW j, NEW k, TailFrom(r, q, j), TailFrom(q, h, k)
  PROVE  TailFrom(r, h, k + j)
<1>1. /\ r \in Seq(Charges) /\ q \in Seq(Charges) /\ h \in Seq(Charges) /\ j \in Nat /\ k \in Nat
      /\ Len(h) = k + Len(q) /\ Len(q) = j + Len(r) /\ Len(r) \in Nat
  BY DEF TailFrom
<1>2. \A i \in 1 .. Len(r) : r[i] = h[(k + j) + i]
  <2> TAKE i \in 1 .. Len(r)
  <2>1. j + i \in 1 .. Len(q) /\ k + (j + i) = (k + j) + i
    BY <1>1
  <2>2. r[i] = q[j + i]
    BY DEF TailFrom
  <2>3. q[j + i] = h[k + (j + i)]
    BY <2>1 DEF TailFrom
  <2> QED
    BY <2>1, <2>2, <2>3
<1>3. k + j \in Nat /\ Len(h) = (k + j) + Len(r)
  BY <1>1
<1> QED
  BY <1>1, <1>2, <1>3 DEF TailFrom

------------------------------------------------------------------------------
(* The limiter and its caller. *)

\* The deque is the history without charges that no window counts any more.
Remembers(q, h, now) ==
  \E k \in Nat : TailFrom(q, h, k) /\ \A i \in 1 .. k : now - h[i].at >= Widest

IInv ==
  /\ TypeOK
  /\ Deque(history, clock)
  /\ Remembers(spent, history, clock)
  /\ granted # 0 => \A l \in Limits : HasRoom(history, l, granted, clock)
  /\ BudgetOrLoneOversized

\* Trimming forgets nothing that will ever be asked for.
LEMMA TrimRemembers ==
  ASSUME NEW q, NEW h, NEW now \in Nat, Remembers(q, h, now), NEW later \in Nat, now <= later
  PROVE  Remembers(q, h, later) /\ Remembers(Trim(q, later), h, later)
<1>1. PICK k \in Nat : TailFrom(q, h, k) /\ \A i \in 1 .. k : now - h[i].at >= Widest
  BY DEF Remembers
<1>2. /\ q \in Seq(Charges) /\ h \in Seq(Charges) /\ Len(h) = k + Len(q)
      /\ Len(q) \in Nat /\ Len(h) \in Nat /\ Widest \in Nat
      /\ \A i \in 1 .. Len(q) : q[i] = h[k + i]
  BY <1>1, LenProperties, WidestIsOne DEF TailFrom
<1>3. \A i \in 1 .. Len(h) : h[i].at \in Nat
  <2>1. \A i \in 1 .. Len(h) : h[i] \in Charges
    BY <1>2, ElementOfSeq
  <2> QED
    BY <2>1 DEF Charges
<1>4. \A i \in 1 .. k : later - h[i].at >= Widest
  <2> TAKE i \in 1 .. k
  <2>1. i \in 1 .. Len(h) /\ now - h[i].at >= Widest
    BY <1>1, <1>2
  <2> QED
    BY <1>2, <1>3, <2>1
<1>5. Remembers(q, h, later)
  BY <1>1, <1>4 DEF Remembers
<1>6. PICK j \in Nat : TailFrom(Trim(q, later), q, j) /\ \A i \in 1 .. j : later - q[i].at >= Widest
  BY <1>2, TrimLeavesATail
<1>7. TailFrom(Trim(q, later), h, k + j)
  BY <1>1, <1>6, TailsCompose
<1>8. \A i \in 1 .. k + j : later - h[i].at >= Widest
  <2> TAKE i \in 1 .. k + j
  <2>1. CASE i <= k
    BY <1>4, <2>1
  <2>2. CASE i > k
    <3>1. i - k \in 1 .. j /\ k + (i - k) = i
      BY <2>2
    <3>2. j <= Len(q)
      BY <1>2, <1>6 DEF TailFrom
    <3>3. i - k \in 1 .. Len(q)
      BY <1>2, <3>1, <3>2
    <3>4. q[i - k] = h[i] /\ later - q[i - k].at >= Widest
      BY <1>2, <1>6, <3>1, <3>3
    <3> QED
      BY <3>4
  <2> QED
    BY <2>1, <2>2
<1>9. k + j \in Nat
  OBVIOUS
<1> QED
  BY <1>5, <1>7, <1>8, <1>9 DEF Remembers

\* What is remembered answers every window, now and later, as the whole history would.
LEMMA RememberedIsEnough ==
  ASSUME NEW q, NEW h, NEW now \in Nat, Remembers(q, h, now), NEW later \in Nat, now <= later,
         NEW l \in Limits
  PROVE  SpentWithin(q, l.window, later) = SpentWithin(h, l.window, later)
<1>1. Remembers(q, h, later)
  BY TrimRemembers
<1>2. PICK k \in Nat : TailFrom(q, h, k) /\ \A i \in 1 .. k : later - h[i].at >= Widest
  BY <1>1 DEF Remembers
<1>3. l.window \in Nat /\ Widest \in Nat /\ l.window <= Widest
  BY LimitsAssumption, WidestIsOne
<1>4. h \in Seq(Charges) /\ Len(h) \in Nat /\ k <= Len(h)
  BY <1>2, LenProperties DEF TailFrom
<1>5. \A i \in 1 .. Len(h) : h[i].at \in Nat
  <2>1. \A i \in 1 .. Len(h) : h[i] \in Charges
    BY <1>4, ElementOfSeq
  <2> QED
    BY <2>1 DEF Charges
<1>6. \A i \in 1 .. k : later - h[i].at >= l.window
  <2> TAKE i \in 1 .. k
  <2>1. i \in 1 .. Len(h) /\ later - h[i].at >= Widest
    BY <1>2, <1>4
  <2> QED
    BY <1>3, <1>5, <2>1
<1> QED
  BY <1>2, <1>3, <1>6, OldChargesCountForNothing

\* A tail of a deque is a deque.
LEMMA RememberedIsADeque ==
  ASSUME NEW q, NEW h, NEW now \in Nat, Remembers(q, h, now), Deque(h, now)
  PROVE  Deque(q, now)
<1>1. PICK k \in Nat : TailFrom(q, h, k)
  BY DEF Remembers
<1>2. /\ q \in Seq(Charges) /\ Len(q) \in Nat /\ Len(h) = k + Len(q)
      /\ \A i \in 1 .. Len(q) : q[i] = h[k + i]
  BY <1>1, LenProperties DEF TailFrom
<1>3. \A i \in 1 .. Len(q) : k + i \in 1 .. Len(h)
  BY <1>2
<1>4. \A i \in 1 .. Len(q) : q[i].at <= now
  BY <1>2, <1>3 DEF Deque
<1>5. \A i, j \in 1 .. Len(q) : i <= j => q[i].at <= q[j].at
  <2> TAKE i, j \in 1 .. Len(q)
  <2> HAVE i <= j
  <2>1. k + i \in 1 .. Len(h) /\ k + j \in 1 .. Len(h) /\ k + i <= k + j
    BY <1>2, <1>3
  <2> QED
    BY <1>2, <2>1 DEF Deque
<1> QED
  BY <1>2, <1>4, <1>5 DEF Deque

\* Room stays as time passes.
LEMMA RoomStays ==
  ASSUME NEW q \in Seq(Charges), NEW l \in Limits, NEW units \in Nat, NEW now \in Nat,
         NEW later \in Nat, now <= later, HasRoom(q, l, units, now)
  PROVE  HasRoom(q, l, units, later)
<1>1. l.window \in Nat /\ l.budget \in Nat
  BY LimitsAssumption
<1>2. /\ SpentWithin(q, l.window, later) \in Nat /\ SpentWithin(q, l.window, now) \in Nat
      /\ SpentWithin(q, l.window, later) <= SpentWithin(q, l.window, now)
  BY <1>1, CountsClimb, LaterHoldsLess
<1> QED
  BY <1>1, <1>2 DEF HasRoom

\* The clock moves on; charges stay where they are.
LEMMA DequeAges ==
  ASSUME NEW q, NEW now \in Nat, Deque(q, now), NEW later \in Nat, now <= later
  PROVE  Deque(q, later)
<1>1. q \in Seq(Charges) /\ \A i \in 1 .. Len(q) : q[i].at <= now /\ q[i].at \in Nat
  <2>1. q \in Seq(Charges)
    BY DEF Deque
  <2>2. \A i \in 1 .. Len(q) : q[i] \in Charges
    BY <2>1, ElementOfSeq
  <2> QED
    BY <2>1, <2>2 DEF Deque, Charges
<1>2. \A i \in 1 .. Len(q) : q[i].at <= later
  BY <1>1
<1> QED
  BY <1>1, <1>2 DEF Deque

LEMMA CallerIsTyped ==
  /\ \A u \in Costs : u \in Nat \ {0}
  /\ \A s \in Latencies \cup Pauses : s \in Nat
  /\ MaxWait \in Nat
BY CallerAssumption

\* The parts of the invariant, with the deque the limiter reads.
LEMMA Known ==
  ASSUME IInv
  PROVE  /\ clock \in Nat /\ granted \in Nat
         /\ spent \in Seq(Charges) /\ history \in Seq(Charges) /\ Len(history) \in Nat
         /\ Deque(history, clock) /\ Deque(spent, clock) /\ Remembers(spent, history, clock)
<1>1. /\ clock \in Nat /\ spent \in Seq(Charges) /\ granted \in Costs \cup {0} /\ history \in Seq(Charges)
      /\ Deque(history, clock) /\ Remembers(spent, history, clock)
  BY DEF IInv, TypeOK
<1>2. Deque(spent, clock)
  BY <1>1, RememberedIsADeque
<1>3. granted \in Nat
  BY <1>1, CallerIsTyped
<1>4. Len(history) \in Nat
  BY <1>1, LenProperties
<1> QED
  BY <1>1, <1>2, <1>3, <1>4

\* Room in the deque is room in the history.
LEMMA RoomIsRemembered ==
  ASSUME IInv, NEW l \in Limits, NEW units, NEW at \in Nat, clock <= at
  PROVE  HasRoom(spent, l, units, at) <=> HasRoom(history, l, units, at)
<1>1. SpentWithin(spent, l.window, at) = SpentWithin(history, l.window, at)
  BY Known, RememberedIsEnough
<1> QED
  BY <1>1 DEF HasRoom

LEMMA IInvInit == Init => IInv
<1> SUFFICES ASSUME Init PROVE IInv
  OBVIOUS
<1>1. clock = 0 /\ spent = <<>> /\ granted = 0 /\ history = <<>>
  BY DEF Init
<1>2. <<>> \in Seq(Charges) /\ Len(<<>>) = 0
  BY EmptySeq
<1>3. TypeOK
  BY <1>1, <1>2 DEF TypeOK
<1>4. Deque(history, clock)
  BY <1>1, <1>2 DEF Deque
<1>5. TailFrom(spent, history, 0)
  BY <1>1, <1>2 DEF TailFrom
<1>6. Remembers(spent, history, clock)
  BY <1>5 DEF Remembers
<1>7. BudgetOrLoneOversized
  BY <1>1 DEF BudgetOrLoneOversized
<1> QED
  BY <1>1, <1>3, <1>4, <1>6, <1>7 DEF IInv

\* One sleep is enough, whichever window asked for it (acquire).
LEMMA AcquireKeeps ==
  ASSUME IInv, NEW units \in Costs, Acquire(units)
  PROVE  IInv'
<1> DEFINE delay == Delay(spent, units, clock)
<1>1. /\ spent' = Trim(spent, clock) /\ clock' = clock + delay
      /\ granted' = units /\ history' = history
  BY DEF Acquire
<1>2. units \in Nat \ {0}
  BY CallerIsTyped
<1>3. /\ delay \in Nat
      /\ \A l \in Limits : /\ WindowDelay(spent, l, units, clock) <= delay
                           /\ WindowDelay(spent, l, units, clock) \in Nat
  BY <1>2, Known, DelayIsTheLongest, WaitsAreNatural
<1> HIDE DEF delay
<1>4. clock \in Nat /\ clock' \in Nat /\ clock <= clock' /\ clock <= clock
  BY <1>1, <1>3, Known
<1>5. Remembers(Trim(spent, clock), history, clock)
  BY <1>4, Known, TrimRemembers
<1>6. Remembers(spent', history', clock')
  BY <1>1, <1>4, <1>5, TrimRemembers
<1>7. Deque(history', clock')
  BY <1>1, <1>4, Known, DequeAges
<1>8. TypeOK'
  <2>1. Trim(spent, clock) \in Seq(Charges)
    BY <1>5 DEF Remembers, TailFrom
  <2> QED
    BY <1>1, <1>4, <2>1, Known DEF TypeOK
<1>9. \A l \in Limits : HasRoom(history, l, units, clock')
  <2> TAKE l \in Limits
  <2>1. clock' >= clock + WindowDelay(spent, l, units, clock) /\ clock' >= clock
    BY <1>1, <1>3, <1>4
  <2>2. HasRoom(spent, l, units, clock')
    BY <1>2, <1>4, <2>1, Known, WaitMakesRoom
  <2> QED
    BY <1>4, <2>2, RoomIsRemembered
<1>10. BudgetOrLoneOversized'
  BY <1>1 DEF IInv, BudgetOrLoneOversized
<1> QED
  BY <1>1, <1>6, <1>7, <1>8, <1>9, <1>10 DEF IInv

LEMMA RefuseKeeps ==
  ASSUME IInv, NEW units \in Costs, Refuse(units)
  PROVE  IInv'
<1>1. spent' = Trim(spent, clock) /\ UNCHANGED <<clock, granted, history>>
  BY DEF Refuse
<1>2. clock \in Nat /\ clock <= clock
  BY Known
<1>3. Remembers(Trim(spent, clock), history, clock)
  BY <1>2, Known, TrimRemembers
<1>4. Trim(spent, clock) \in Seq(Charges)
  BY <1>3 DEF Remembers, TailFrom
<1>5. TypeOK'
  BY <1>1, <1>4 DEF IInv, TypeOK
<1>6. BudgetOrLoneOversized'
  BY <1>1 DEF IInv, BudgetOrLoneOversized
<1> QED
  BY <1>1, <1>3, <1>5, <1>6 DEF IInv

LEMMA PauseKeeps ==
  ASSUME IInv, NEW seconds \in Pauses, Pause(seconds)
  PROVE  IInv'
<1>1. granted = 0 /\ clock' = clock + seconds /\ UNCHANGED <<spent, granted, history>>
  BY DEF Pause
<1>2. clock \in Nat /\ clock' \in Nat /\ clock <= clock'
  BY <1>1, Known, CallerIsTyped
<1>3. Remembers(spent, history, clock')
  BY <1>2, Known, TrimRemembers
<1>4. Deque(history, clock')
  BY <1>2, Known, DequeAges
<1>5. TypeOK'
  BY <1>1, <1>2 DEF IInv, TypeOK
<1>6. BudgetOrLoneOversized'
  BY <1>1 DEF IInv, BudgetOrLoneOversized
<1> QED
  BY <1>1, <1>3, <1>4, <1>5, <1>6 DEF IInv

\* What is appended to the whole is appended to its tail.
LEMMA TailsGrowTogether ==
  ASSUME NEW q, NEW h, NEW k, TailFrom(q, h, k), NEW c \in Charges
  PROVE  TailFrom(Append(q, c), Append(h, c), k)
<1>1. /\ q \in Seq(Charges) /\ h \in Seq(Charges) /\ k \in Nat /\ Len(h) = k + Len(q)
      /\ Len(q) \in Nat /\ \A i \in 1 .. Len(q) : q[i] = h[k + i]
  BY LenProperties DEF TailFrom
<1> DEFINE p == Append(q, c)
<1> DEFINE g == Append(h, c)
<1>2. /\ p \in Seq(Charges) /\ Len(p) = Len(q) + 1 /\ p[Len(q) + 1] = c
      /\ \A i \in 1 .. Len(q) : p[i] = q[i]
  BY <1>1, AppendProperties, SMTT(30)
<1>3. /\ g \in Seq(Charges) /\ Len(g) = Len(h) + 1 /\ g[Len(h) + 1] = c
      /\ \A i \in 1 .. Len(h) : g[i] = h[i]
  BY <1>1, AppendProperties, SMTT(30)
<1> HIDE DEF p, g
<1>4. \A i \in 1 .. Len(p) : p[i] = g[k + i]
  <2> TAKE i \in 1 .. Len(p)
  <2>1. CASE i = Len(q) + 1
    <3>1. k + i = Len(h) + 1
      BY <1>1, <2>1
    <3> QED
      BY <1>2, <1>3, <2>1, <3>1
  <2>2. CASE i # Len(q) + 1
    <3>1. i \in 1 .. Len(q) /\ k + i \in 1 .. Len(h)
      BY <1>1, <1>2, <2>2
    <3> QED
      BY <1>1, <1>2, <1>3, <3>1
  <2> QED
    BY <2>1, <2>2
<1>5. Len(g) = k + Len(p)
  BY <1>1, <1>2, <1>3
<1>6. TailFrom(p, g, k)
  BY <1>1, <1>2, <1>3, <1>4, <1>5 DEF TailFrom
<1> QED
  BY <1>6 DEF p, g

\* A charge is dated when its request was over, and finds every window with room for it.
LEMMA ChargeKeeps ==
  ASSUME IInv, NEW latency \in Latencies, Charge(latency)
  PROVE  IInv'
<1> DEFINE t == clock + latency
<1> DEFINE charge == [at |-> t, units |-> granted]
<1>1. /\ granted # 0 /\ clock' = t /\ granted' = 0
      /\ spent' = Append(Trim(spent, t), charge) /\ history' = Append(history, charge)
  BY DEF Charge
<1>2. latency \in Nat /\ clock \in Nat /\ granted \in Nat \ {0} /\ t \in Nat /\ clock <= t
  BY <1>1, Known, CallerIsTyped
<1>3. charge \in Charges /\ charge.at = t /\ charge.units = granted
  BY <1>2 DEF Charges
<1> HIDE DEF t, charge
<1>4. Remembers(Trim(spent, t), history, t) /\ Deque(history, t)
  BY <1>2, Known, TrimRemembers, DequeAges
<1>5. /\ history' \in Seq(Charges) /\ Len(history') = Len(history) + 1
      /\ history'[Len(history) + 1] = charge
      /\ \A i \in 1 .. Len(history) : history'[i] = history[i]
  BY <1>1, <1>3, Known, AppendProperties
<1>6. Len(history) \in Nat /\ \A i \in 1 .. Len(history') : i \in 1 .. Len(history) \/ i = Len(history) + 1
  BY <1>5, Known
<1>7. PICK k \in Nat : /\ TailFrom(Trim(spent, t), history, k)
                       /\ \A i \in 1 .. k : t - history[i].at >= Widest
  BY <1>4 DEF Remembers
<1>8. Remembers(spent', history', clock')
  <2>1. TailFrom(spent', history', k)
    BY <1>1, <1>3, <1>7, TailsGrowTogether
  <2>2. k <= Len(history)
    BY <1>6, <1>7, LenProperties DEF TailFrom
  <2>3. \A i \in 1 .. k : clock' - history'[i].at >= Widest
    <3> TAKE i \in 1 .. k
    <3>1. i \in 1 .. Len(history)
      BY <1>6, <2>2
    <3> QED
      BY <1>1, <1>5, <1>7, <3>1
  <2> QED
    BY <2>1, <2>3 DEF Remembers
<1>9. Deque(history', clock')
  <2>1. \A i \in 1 .. Len(history') : history'[i].at <= clock'
    <3> TAKE i \in 1 .. Len(history')
    <3>1. CASE i \in 1 .. Len(history)
      BY <1>1, <1>4, <1>5, <3>1 DEF Deque
    <3>2. CASE i = Len(history) + 1
      BY <1>1, <1>2, <1>3, <1>5, <3>2
    <3> QED
      BY <1>6, <3>1, <3>2
  <2>2. \A i, j \in 1 .. Len(history') : i <= j => history'[i].at <= history'[j].at
    <3> TAKE i, j \in 1 .. Len(history')
    <3> HAVE i <= j
    <3>1. CASE j = Len(history) + 1
      BY <1>1, <1>3, <1>5, <2>1, <3>1
    <3>2. CASE j \in 1 .. Len(history)
      <4>1. i \in 1 .. Len(history)
        BY <1>6, <3>2
      <4> QED
        BY <1>4, <1>5, <3>2, <4>1 DEF Deque
    <3> QED
      BY <1>6, <3>1, <3>2
  <2> QED
    BY <1>5, <2>1, <2>2 DEF Deque
<1>10. TypeOK'
  <2>1. spent' \in Seq(Charges)
    BY <1>8 DEF Remembers, TailFrom
  <2> QED
    BY <1>1, <1>2, <1>5, <2>1 DEF TypeOK
<1>11. ASSUME NEW i \in 1 .. Len(history), NEW l \in Limits
       PROVE  LET upto == SubSeq(history', 1, i)
                  sum  == SpentWithin(upto, l.window, history'[i].at)
              IN  sum <= l.budget \/ sum = history'[i].units
  <2>1. SubSeq(history', 1, i) = SubSeq(history, 1, i)
    <3>1. history \in Seq(Charges) /\ i \in 0 .. Len(history)
      BY <1>6, Known
    <3>2. /\ \A j \in 1 .. i : history[j] \in Charges /\ history'[j] = history[j]
          /\ i \in Int
      BY <1>5, <1>6, <3>1, ElementOfSeq
    <3>3. /\ SubSeq(history, 1, i) \in Seq(Charges) /\ Len(SubSeq(history, 1, i)) = i
          /\ \A j \in 1 .. i : SubSeq(history, 1, i)[j] = history[j]
      BY <1>6, <3>2, SubSeqProperties
    <3>4. /\ SubSeq(history', 1, i) \in Seq(Charges) /\ Len(SubSeq(history', 1, i)) = i
          /\ \A j \in 1 .. i : SubSeq(history', 1, i)[j] = history'[j]
      BY <1>6, <3>2, SubSeqProperties
    <3> QED
      BY <3>2, <3>3, <3>4, SeqEqual
  <2>2. history'[i] = history[i] /\ i \in DOMAIN history
    BY <1>5, Known, LenProperties
  <2> QED
    BY <2>1, <2>2 DEF IInv, BudgetOrLoneOversized
<1>12. ASSUME NEW l \in Limits
       PROVE  LET upto == SubSeq(history', 1, Len(history'))
                  sum  == SpentWithin(upto, l.window, history'[Len(history')].at)
              IN  sum <= l.budget \/ sum = history'[Len(history')].units
  <2>1. SubSeq(history', 1, Len(history')) = history'
    BY <1>5, SubSeqFull
  <2>2. history'[Len(history')] = charge
    BY <1>5
  <2>3. SpentWithin(history', l.window, t) = SpentWithin(history, l.window, t) + granted
    <3>1. l.window \in Nat /\ history \in Seq(Charges)
      BY Known, LimitsAssumption
    <3>2. t - charge.at < l.window
      BY <1>2, <1>3, LimitsAssumption
    <3> QED
      BY <1>1, <1>2, <1>3, <3>1, <3>2, ChargeCounts
  <2>4. HasRoom(history, l, granted, t)
    <3>1. HasRoom(history, l, granted, clock)
      BY <1>1 DEF IInv
    <3> QED
      BY <1>2, <3>1, Known, RoomStays
  <2>5. SpentWithin(history, l.window, t) \in Nat
    <3>1. l.window \in Nat
      BY LimitsAssumption
    <3> QED
      BY <1>2, <3>1, Known, CountsClimb
  <2>6. SpentWithin(history', l.window, t) <= l.budget \/ SpentWithin(history', l.window, t) = granted
    BY <1>2, <2>3, <2>4, <2>5 DEF HasRoom
  <2> QED
    BY <1>3, <2>1, <2>2, <2>6
<1>13. BudgetOrLoneOversized'
  <2>1. DOMAIN history' = 1 .. Len(history')
    BY <1>5, LenProperties
  <2>2. \A i \in 1 .. Len(history') : i \in 1 .. Len(history) \/ i = Len(history')
    BY <1>5, <1>6
  <2> SUFFICES ASSUME NEW i \in 1 .. Len(history'), NEW l \in Limits
               PROVE  LET upto == SubSeq(history', 1, i)
                          sum  == SpentWithin(upto, l.window, history'[i].at)
                      IN  sum <= l.budget \/ sum = history'[i].units
    BY <2>1 DEF BudgetOrLoneOversized
  <2> QED
    BY <1>11, <1>12, <2>2
<1> QED
  BY <1>1, <1>8, <1>9, <1>10, <1>13 DEF IInv

LEMMA IInvNext == IInv /\ [Next]_vars => IInv'
<1> SUFFICES ASSUME IInv, [Next]_vars PROVE IInv'
  OBVIOUS
<1>1. ASSUME NEW units \in Costs, Acquire(units) PROVE IInv'
  BY <1>1, AcquireKeeps
<1>2. ASSUME NEW units \in Costs, Refuse(units) PROVE IInv'
  BY <1>2, RefuseKeeps
<1>3. ASSUME NEW latency \in Latencies, Charge(latency) PROVE IInv'
  BY <1>3, ChargeKeeps
<1>4. ASSUME NEW seconds \in Pauses, Pause(seconds) PROVE IInv'
  BY <1>4, PauseKeeps
<1>5. CASE UNCHANGED vars
  BY <1>5 DEF vars, IInv, TypeOK, BudgetOrLoneOversized
<1> QED
  BY <1>1, <1>2, <1>3, <1>4, <1>5 DEF Next

------------------------------------------------------------------------------
(* The theorems. *)

THEOREM InvariantHolds == Spec => []IInv
BY IInvInit, IInvNext, PTL DEF Spec

LEMMA NothingIsForgotten == IInv => TrimForgetsNothing
<1> SUFFICES ASSUME IInv, NEW l \in Limits
             PROVE  SpentWithin(spent, l.window, clock) = SpentWithin(history, l.window, clock)
  BY DEF TrimForgetsNothing
<1>1. clock \in Nat /\ clock <= clock
  BY Known
<1> QED
  BY <1>1, Known, RememberedIsEnough

\* "Enforce several budgets simultaneously": whatever the windows, the requests and their
\* timing, no window is overspent and trimming forgets nothing (WeightedWindowLimiter).
THEOREM BudgetsAreEnforced == Spec => []NoWindowIsOverspent
<1>1. IInv => NoWindowIsOverspent
  BY NothingIsForgotten DEF IInv, NoWindowIsOverspent
<1> QED
  BY <1>1, InvariantHolds, PTL

\* acquire sleeps once and need not look again: when a request goes out every window has
\* room for it, or is empty.
THEOREM SleepOnce == Spec => []OneSleepIsEnough
<1>1. IInv => OneSleepIsEnough
  BY DEF IInv, OneSleepIsEnough, HasRoom
<1> QED
  BY <1>1, InvariantHolds, PTL

\* Before the longest wait is over, the window that asks for it has no room.
LEMMA NeverTooLong ==
  ASSUME IInv, NEW units \in Costs, NEW sooner \in Nat, clock <= sooner,
         sooner < clock + Delay(spent, units, clock)
  PROVE  ~Fits(units, sooner)
<1>1. units \in Nat \ {0} /\ clock \in Nat /\ Deque(spent, clock)
  BY Known, CallerIsTyped
<1>2. PICK l \in Limits : WindowDelay(spent, l, units, clock) = Delay(spent, units, clock)
  BY <1>1, DelayIsTheLongest
<1>3. ~HasRoom(spent, l, units, sooner)
  BY <1>1, <1>2, NoRoomBeforeTheWait
<1>4. ~HasRoom(history, l, units, sooner)
  BY <1>3, RoomIsRemembered
<1> QED
  BY <1>4 DEF Fits, HasRoom

\* WaitTooLong is raised only when no wait that is allowed would have made room.
THEOREM RefusalsAreHopeless == Spec => []RefusedOnlyWhenHopeless
<1>1. ASSUME IInv, NEW units \in Costs, Delay(spent, units, clock) > MaxWait
      PROVE  ~Fits(units, clock + MaxWait)
  <2>1. clock \in Nat /\ MaxWait \in Nat /\ units \in Nat \ {0} /\ Deque(spent, clock)
    BY <1>1, Known, CallerIsTyped
  <2>2. Delay(spent, units, clock) \in Nat
    BY <2>1, DelayIsTheLongest
  <2>3. clock + MaxWait \in Nat /\ clock <= clock + MaxWait
        /\ clock + MaxWait < clock + Delay(spent, units, clock)
    BY <1>1, <2>1, <2>2
  <2> QED
    BY <1>1, <2>3, NeverTooLong
<1>2. IInv => RefusedOnlyWhenHopeless
  BY <1>1 DEF RefusedOnlyWhenHopeless
<1> QED
  BY <1>2, InvariantHolds, PTL

\* A caller that slept could not have been let through a second sooner.
THEOREM WaitsAreNotTooLong == Spec => NoLongerThanNeeded
<1>1. ASSUME IInv, [Next]_vars, granted = 0, granted' # 0, clock' > clock
      PROVE  ~Fits(granted', clock' - 1)
  <2>1. PICK units \in Costs : Acquire(units)
    BY <1>1 DEF Next, vars, Refuse, Charge, Pause
  <2>2. granted' = units /\ clock' = clock + Delay(spent, units, clock)
    BY <2>1 DEF Acquire
  <2>3. clock \in Nat /\ units \in Nat \ {0} /\ Deque(spent, clock)
    BY <1>1, Known, CallerIsTyped
  <2>4. Delay(spent, units, clock) \in Nat
    BY <2>3, DelayIsTheLongest
  <2>5. clock' - 1 \in Nat /\ clock <= clock' - 1 /\ clock' - 1 < clock + Delay(spent, units, clock)
    BY <1>1, <2>2, <2>3, <2>4
  <2> QED
    BY <1>1, <2>2, <2>5, NeverTooLong
<1>2. IInv /\ [Next]_vars => [granted = 0 /\ granted' # 0 /\ clock' > clock => ~Fits(granted', clock' - 1)]_vars
  BY <1>1
<1> QED
  BY <1>2, InvariantHolds, PTL DEF Spec, NoLongerThanNeeded
==============================================================================
