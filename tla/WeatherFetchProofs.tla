-------------------------- MODULE WeatherFetchProofs --------------------------
(***************************************************************************)
(* What holds of a load for any plan, number of attempts, waits and        *)
(* answers: it yields everything or nothing, it runs down, it uses the     *)
(* limiter as the limiter asks, and alone it is within the budgets.        *)
(***************************************************************************)
EXTENDS WeatherFetch, TLAPS, FiniteSetTheorems, NaturalsInduction, WellFoundedInduction,
        SequenceTheorems

\* The requests answered are the first ones of the plan, in order; there is one
\* more to make while an attempt is out; and a retry is one that is left.
IInv ==
  /\ plan \in Plans
  /\ pc \in {"start", "ready", "calling", "backoff", "done", "failed"}
  /\ attempt \in 0 .. Retries - 1
  /\ served \in Seq(Nat) /\ Len(served) <= Len(plan.costs)
  /\ \A i \in 1 .. Len(served) : served[i] = i
  /\ pc \in {"calling", "backoff"} => Request <= Len(plan.costs)
  /\ pc = "backoff" => attempt < Retries - 1
  /\ yielded # <<>> => yielded = [i \in 1 .. Len(plan.costs) |-> i]

LEMMA PlansAreTyped ==
  ASSUME plan \in Plans
  PROVE  Len(plan.costs) \in Nat
BY FetchAssumption

LEMMA IInvInit == Init => IInv
<1> SUFFICES ASSUME Init PROVE IInv
  OBVIOUS
<1>1. plan \in Plans /\ served = <<>> /\ yielded = <<>> /\ pc = "start" /\ attempt = 0
  BY DEF Init
<1>2. Len(plan.costs) \in Nat
  BY <1>1, PlansAreTyped
<1> QED
  BY <1>1, <1>2, FetchAssumption DEF IInv

LEMMA ServedKeepsIInv == IInv /\ Served => IInv'
<1> SUFFICES ASSUME IInv, Served PROVE IInv'
  OBVIOUS
<1>1. /\ pc = "calling" /\ pc' = "ready" /\ attempt' = 0
      /\ served' = Append(served, Len(served) + 1)
      /\ UNCHANGED <<plan, yielded>>
  BY DEF Served, Answered, Request
<1>2. served \in Seq(Nat) /\ Len(plan.costs) \in Nat /\ Len(served) + 1 <= Len(plan.costs)
  BY <1>1, PlansAreTyped DEF IInv, Request
<1>3. served' \in Seq(Nat) /\ Len(served') = Len(served) + 1
  BY <1>1, <1>2
<1>4. \A i \in 1 .. Len(served') : served'[i] = i
  BY <1>1, <1>2, <1>3 DEF IInv
<1>5. Retries \in Nat \ {0} /\ 0 \in 0 .. Retries - 1
  BY FetchAssumption
<1>6. yielded' # <<>> => yielded' = [i \in 1 .. Len(plan'.costs) |-> i]
  BY <1>1 DEF IInv
<1> QED
  BY <1>1, <1>2, <1>3, <1>4, <1>5, <1>6 DEF IInv

LEMMA YieldKeepsIInv == IInv /\ Yield => IInv'
<1> SUFFICES ASSUME IInv, Yield PROVE IInv'
  OBVIOUS
<1>1. /\ pc' = "done" /\ yielded' = served /\ Len(served) = Len(plan.costs)
      /\ UNCHANGED <<plan, attempt, served>>
  BY DEF Yield
<1>2. served = [i \in 1 .. Len(plan.costs) |-> i]
  BY <1>1, PlansAreTyped DEF IInv
<1> QED
  BY <1>1, <1>2 DEF IInv

LEMMA IInvNext == IInv /\ [Next]_vars => IInv'
<1> SUFFICES ASSUME IInv, [Next]_vars PROVE IInv'
  OBVIOUS
<1>1. CASE RefuseRange
  BY <1>1 DEF RefuseRange, Fail, IInv
<1>2. CASE BeginLoad
  BY <1>2 DEF BeginLoad, IInv
<1>3. CASE Acquire
  BY <1>3 DEF Acquire, IInv, Request
<1>4. CASE GiveUpWaiting
  BY <1>4 DEF GiveUpWaiting, Fail, IInv
<1>5. CASE Served
  BY <1>5, ServedKeepsIInv
<1>6. ASSUME NEW answer \in Answers, FailAtOnce(answer) PROVE IInv'
  BY <1>6 DEF FailAtOnce, Answered, Fail, IInv
<1>7. ASSUME NEW answer \in Answers, WorthARetry(answer) PROVE IInv'
  BY <1>7, FetchAssumption DEF WorthARetry, Answered, Fail, IInv, Request
<1>8. CASE Retry
  BY <1>8, FetchAssumption DEF Retry, IInv
<1>9. CASE Yield
  BY <1>9, YieldKeepsIInv
<1>10. CASE UNCHANGED vars
  BY <1>10 DEF vars, IInv, Request
<1> QED
  BY <1>1, <1>2, <1>3, <1>4, <1>5, <1>6, <1>7, <1>8, <1>9, <1>10 DEF Next

\* dlt sees either nothing or every window of the plan, once each and oldest first.
THEOREM AllOrNothingAlways == Spec => []AllOrNothing
<1>1. IInv => AllOrNothing
  BY DEF IInv, AllOrNothing
<1> QED
  BY IInvInit, IInvNext, <1>1, PTL DEF Spec

-----------------------------------------------------------------------------
(* The measure. *)

Left == Retries * (Len(plan.costs) - Len(served)) - attempt

\* An answered request takes all its attempts off what is left.
LEMMA ServedTakesItsAttempts ==
  ASSUME NEW R \in Nat, NEW a \in 0 .. R - 1, NEW n \in Nat, NEW s \in Nat
  PROVE  /\ R * (n - s) - a \in Int
         /\ R * (n - (s + 1)) <= (R * (n - s) - a) - 1
<1>1. R * (n - (s + 1)) = R * (n - s) - R
  OBVIOUS
<1>2. R * (n - s) \in Int
  OBVIOUS
<1> QED
  BY <1>1, <1>2

\* Arithmetic the measure needs.
LEMMA OneLess ==
  ASSUME NEW x \in Int, NEW a \in Int
  PROVE  x - (a + 1) = (x - a) - 1
OBVIOUS

LEMMA FourTimes ==
  ASSUME NEW x \in Int, NEW y \in Int, y <= x - 1
  PROVE  4 * y + 3 < 4 * x + 2
OBVIOUS

LEMMA WorkGoesDown == IInv /\ Next /\ ~(UNCHANGED vars) => Work' < Work
<1> SUFFICES ASSUME IInv, Next, ~(UNCHANGED vars) PROVE Work' < Work
  OBVIOUS
<1> DEFINE rank(p) == [start |-> 4, ready |-> 3, calling |-> 2, backoff |-> 1,
                       done |-> 0, failed |-> 0][p]
<1>1. Work = 4 * Left + rank(pc) /\ Work' = 4 * Left' + rank(pc')
  BY DEF Work, Left
<1>2. Left \in Int
  <2>1. Retries \in Nat /\ Len(plan.costs) \in Nat /\ Len(served) \in Nat
    BY PlansAreTyped, FetchAssumption DEF IInv
  <2> QED
    BY <2>1, ServedTakesItsAttempts DEF Left, IInv
<1>3. CASE UNCHANGED <<plan, attempt, served>>
  <2>1. Left' = Left
    BY <1>3 DEF Left
  <2>2. rank(pc') < rank(pc)
    <3>1. CASE RefuseRange \/ BeginLoad \/ Acquire \/ GiveUpWaiting \/ Yield
      BY <3>1 DEF RefuseRange, BeginLoad, Acquire, GiveUpWaiting, Yield, Fail
    <3>2. ASSUME NEW answer \in Answers, FailAtOnce(answer) \/ WorthARetry(answer)
          PROVE  rank(pc') < rank(pc)
      BY <3>2 DEF FailAtOnce, WorthARetry, Answered, Fail
    <3>3. ~Served
      BY <1>3 DEF Served, IInv, Request
    <3>4. ~Retry
      BY <1>3 DEF Retry, IInv
    <3> QED
      BY <3>1, <3>2, <3>3, <3>4 DEF Next
  <2>3. rank(pc) \in 0 .. 4 /\ rank(pc') \in 0 .. 4
    BY IInvNext DEF IInv
  <2> HIDE DEF rank
  <2> QED
    BY <1>1, <1>2, <2>1, <2>2, <2>3
<1>4. CASE Served
  <2>1. /\ pc = "calling" /\ pc' = "ready" /\ attempt' = 0
        /\ Len(served') = Len(served) + 1 /\ plan' = plan
    BY <1>4 DEF Served, Answered, Request, IInv
  <2>2. Retries \in Nat /\ Len(plan.costs) \in Nat /\ Len(served) \in Nat
    BY PlansAreTyped, FetchAssumption DEF IInv
  <2>3. Left' = Retries * (Len(plan.costs) - (Len(served) + 1))
    BY <2>1, <2>2 DEF Left
  <2>4. Left' <= Left - 1 /\ Left' \in Int
    BY <2>2, <2>3, ServedTakesItsAttempts DEF Left, IInv
  <2>5. rank(pc) = 2 /\ rank(pc') = 3
    BY <2>1
  <2>6. Work = 4 * Left + 2 /\ Work' = 4 * Left' + 3
    BY <1>1, <2>5
  <2> QED
    BY <1>2, <2>4, <2>6, FourTimes
<1>5. CASE Retry
  <2>1. pc = "backoff" /\ pc' = "ready" /\ attempt' = attempt + 1
        /\ UNCHANGED <<plan, served>>
    BY <1>5 DEF Retry
  <2>2. Left' = Left - 1
    <3>1. Retries * (Len(plan.costs) - Len(served)) \in Int
      BY PlansAreTyped, FetchAssumption DEF IInv
    <3>2. attempt \in Int /\ attempt' = attempt + 1
      BY <2>1, FetchAssumption DEF IInv
    <3>3. Left' = Retries * (Len(plan.costs) - Len(served)) - (attempt + 1)
      BY <2>1, <3>2 DEF Left
    <3> QED
      BY <3>1, <3>2, <3>3, OneLess DEF Left
  <2>3. rank(pc) = 1 /\ rank(pc') = 3
    BY <2>1
  <2> HIDE DEF rank
  <2> QED
    BY <1>1, <1>2, <2>2, <2>3
<1>6. UNCHANGED <<plan, attempt, served>> \/ Served \/ Retry
  BY DEF Next, RefuseRange, BeginLoad, Acquire, GiveUpWaiting, Yield, FailAtOnce,
         WorthARetry, Answered
<1> QED
  BY <1>3, <1>4, <1>5, <1>6

\* However Open-Meteo answers, every step of a load leaves less to do.
THEOREM RunsDownAlways == Spec => RunsDown
<1>1. IInv /\ [Next]_vars => [Work' < Work]_vars
  BY WorkGoesDown
<1> QED
  BY IInvInit, IInvNext, <1>1, PTL DEF Spec, RunsDown

-----------------------------------------------------------------------------
(* The limiter's protocol. *)

\* The sizes of sets of numbers of which none is the greatest.
Topless == {n \in Nat : \E S \in SUBSET Nat : IsFiniteSet(S) /\ S # {} /\ Cardinality(S) = n
                                              /\ \A x \in S : \E y \in S : y > x}

\* A finite set of numbers has a greatest.
LEMMA FiniteHasMax ==
  ASSUME NEW S \in SUBSET Nat, IsFiniteSet(S), S # {}
  PROVE  Max(S) \in S /\ \A x \in S : x <= Max(S)
<1>1. Topless = {}
  <2> SUFFICES ASSUME Topless # {} PROVE FALSE
    OBVIOUS
  <2>1. IsWellFoundedOn(OpToRel(<, Nat), Nat)
    BY NatLessThanWellFounded
  <2>2. PICK n \in Topless : \A m \in Topless : ~(<<m, n>> \in OpToRel(<, Nat))
    BY <2>1, WFMin DEF Topless
  <2>3. \A m \in Topless : ~(m < n)
    BY <2>2 DEF OpToRel, Topless
  <2>4. PICK T \in SUBSET Nat : IsFiniteSet(T) /\ T # {} /\ Cardinality(T) = n
                                /\ \A x \in T : \E y \in T : y > x
    BY DEF Topless
  <2>5. PICK t \in T : TRUE
    BY <2>4
  <2> DEFINE U == T \ {t}
  <2>6. IsFiniteSet(U) /\ Cardinality(U) = n - 1 /\ n \in Nat /\ n # 0
    BY <2>4, FS_RemoveElement, FS_EmptySet, FS_CardinalityType
  <2>7. U # {}
    BY <2>4
  <2>8. n - 1 \in Nat /\ n - 1 < n
    BY <2>6
  <2>9. n - 1 \notin Topless
    BY <2>3, <2>8
  <2>10. PICK m \in U : \A y \in U : ~(y > m)
    BY <2>6, <2>7, <2>8, <2>9 DEF Topless
  <2>11. m \in Nat /\ t \in Nat /\ T = U \cup {t}
    BY <2>5
  <2>12. PICK y \in T : y > m
    BY <2>4, <2>10
  <2>13. y = t
    BY <2>10, <2>12
  <2>14. \A z \in T : ~(z > t)
    BY <2>10, <2>11, <2>12, <2>13
  <2> QED
    BY <2>4, <2>5, <2>14
<1>2. Cardinality(S) \in Nat
  BY FS_CardinalityType
<1>3. PICK m \in S : \A y \in S : ~(y > m)
  BY <1>1, <1>2 DEF Topless
<1>4. \A y \in S : m >= y
  BY <1>3
<1> QED
  BY <1>3, <1>4 DEF Max

\* A sequence, of whatever it holds.
IsSeq(q) == q \in Seq({q[i] : i \in DOMAIN q})

\* A sequence grows by what is appended to it.
LEMMA OneMore ==
  ASSUME NEW q, IsSeq(q), NEW e, NEW r, r = Append(q, e)
  PROVE  /\ IsSeq(r) /\ r # <<>>
         /\ Len(r) = Len(q) + 1 /\ r[Len(r)] = e
<1> DEFINE S == {q[i] : i \in DOMAIN q} \cup {e}
<1>1. q \in Seq(S)
  BY LenProperties DEF IsSeq
<1>2. r \in Seq(S) /\ Len(r) = Len(q) + 1 /\ r[Len(r)] = e
  BY <1>1, AppendProperties
<1>3. r # <<>>
  BY <1>1, <1>2
<1> HIDE DEF S
<1>4. IsSeq(r)
  BY <1>2 DEF IsSeq
<1> QED
  BY <1>2, <1>3, <1>4

\* One of the plans is the longest.
LEMMA LongestPlan ==
  /\ Max({Len(p.costs) : p \in Plans}) \in Nat
  /\ \A p \in Plans : Len(p.costs) \in Nat /\ Len(p.costs) <= Max({Len(q.costs) : q \in Plans})
<1> DEFINE lengths == {Len(p.costs) : p \in Plans}
<1>1. \A p \in Plans : Len(p.costs) \in Nat
  BY FetchAssumption
<1>2. lengths \in SUBSET Nat /\ lengths # {}
  <2>1. PICK p \in Plans : TRUE
    BY FetchAssumption
  <2>2. Len(p.costs) \in lengths
    OBVIOUS
  <2> QED
    BY <1>1, <2>2
<1>3. IsFiniteSet(lengths)
  <2> DEFINE size == [p \in Plans |-> Len(p.costs)]
  <2>1. size \in Surjection(Plans, lengths)
    BY DEF Surjection
  <2> QED
    BY <2>1, FetchAssumption, FS_Surjection
<1>4. Max(lengths) \in lengths /\ \A n \in lengths : n <= Max(lengths)
  BY <1>2, <1>3, FiniteHasMax
<1> QED
  BY <1>1, <1>2, <1>4

\* A request there is left to make has its units, and no plan has more requests than the longest.
LEMMA CostsAreUnits ==
  ASSUME IInv, Request <= Len(plan.costs)
  PROVE  /\ Cost \in Nat \ {0}
         /\ Cost \in UNION {ToSet(p.costs) : p \in Plans}
         /\ Len(served) + 1 <= Max({Len(p.costs) : p \in Plans})
         /\ Max({Len(p.costs) : p \in Plans}) \in Nat
<1>1. plan.costs \in Seq(Nat \ {0}) /\ plan \in Plans /\ Len(served) \in Nat
  BY FetchAssumption DEF IInv
<1>2. Request \in DOMAIN plan.costs
  BY <1>1 DEF Request
<1>3. Cost \in Nat \ {0} /\ Cost \in ToSet(plan.costs)
  BY <1>1, <1>2 DEF Cost, ToSet
<1>4. Len(plan.costs) \in Nat /\ Len(plan.costs) <= Max({Len(p.costs) : p \in Plans})
      /\ Max({Len(p.costs) : p \in Plans}) \in Nat
  BY <1>1, LongestPlan
<1>5. Len(served) + 1 <= Max({Len(p.costs) : p \in Plans})
  BY <1>1, <1>4 DEF Request
<1> QED
  BY <1>1, <1>3, <1>4, <1>5

\* No more was charged than attempts were made, and a wait begins when an attempt ends.
PaceInv ==
  /\ IsSeq(history)
  /\ pc \in {"start", "ready", "calling"} => Len(history) <= Retries * Len(served) + attempt
  /\ pc = "backoff" => /\ Len(history) <= Retries * Len(served) + attempt + 1
                       /\ history # <<>> /\ history[Len(history)].at = clock
                       /\ last \in Transient

\* Charges that stay below the attempts the plan allows stay below the limiter's bound.
LEMMA AttemptsAreBounded ==
  ASSUME NEW R \in Nat, NEW a \in 0 .. R - 1, NEW s \in Nat, NEW m \in Nat, s + 1 <= m,
         NEW h \in Nat, h <= R * s + a
  PROVE  h < R * m /\ h + 1 <= R * (s + 1)
<1>1. R * (s + 1) = R * s + R
  OBVIOUS
<1>2. R * s \in Nat
  OBVIOUS
<1>3. m = (s + 1) + (m - (s + 1)) /\ m - (s + 1) \in Nat
  OBVIOUS
<1>4. ASSUME NEW k \in Nat PROVE R * ((s + 1) + k) = R * (s + 1) + R * k /\ R * k \in Nat
  OBVIOUS
<1>5. R * m >= R * (s + 1)
  BY <1>1, <1>2, <1>3, <1>4
<1>6. R * m \in Int
  OBVIOUS
<1> QED
  BY <1>1, <1>2, <1>5, <1>6

LEMMA PaceInit == Init => PaceInv
<1> SUFFICES ASSUME Init PROVE PaceInv
  OBVIOUS
<1>1. history = <<>> /\ served = <<>> /\ attempt = 0 /\ pc = "start" /\ Retries \in Nat
  BY FetchAssumption DEF Init
<1>2. Len(history) = 0 /\ Len(served) = 0 /\ IsSeq(history)
  BY <1>1 DEF IsSeq
<1>3. Retries * 0 + 0 = 0
  BY <1>1
<1> QED
  BY <1>1, <1>2, <1>3 DEF PaceInv

\* An attempt that ends, served or not, is one more charge, made then.
LEMMA AttemptIsACharge ==
  ASSUME IInv, PaceInv, NEW answer, Answered(answer), pc' # "calling"
  PROVE  /\ Limiter!Charge(LatencyOf(answer))
         /\ IsSeq(history') /\ history' # <<>>
         /\ Len(history') = Len(history) + 1 /\ history'[Len(history')].at = clock'
         /\ Len(history') <= Retries * Len(served) + attempt + 1
         /\ Len(history') <= Retries * (Len(served) + 1)
<1> DEFINE latency == LatencyOf(answer)
           charge == [at |-> clock + latency, units |-> Cost]
<1>1. /\ pc = "calling" /\ clock' = clock + latency
      /\ spent' = Append(Limiter!Trim(spent, clock + latency), charge)
      /\ history' = Append(history, charge)
  BY DEF Answered, ChargeAttempt
<1>2. Request <= Len(plan.costs)
  BY <1>1 DEF IInv
<1>3. Cost \in Nat \ {0} /\ Len(served) + 1 <= Max({Len(p.costs) : p \in Plans})
      /\ Max({Len(p.costs) : p \in Plans}) \in Nat
  BY <1>2, CostsAreUnits
<1>4. Limiter!Charge(latency)
  BY <1>1, <1>3 DEF Limiter!Charge
<1>5. IsSeq(history) /\ Len(history) \in Nat
      /\ Len(history) <= Retries * Len(served) + attempt
  BY <1>1 DEF PaceInv, IsSeq
<1>6. /\ IsSeq(history') /\ history' # <<>>
      /\ Len(history') = Len(history) + 1 /\ history'[Len(history')] = charge
  <2> HIDE DEF charge
  <2>1. ASSUME NEW h, h = Append(history, charge)
        PROVE  IsSeq(h) /\ h # <<>> /\ Len(h) = Len(history) + 1 /\ h[Len(h)] = charge
    BY <1>5, <2>1, OneMore
  <2>2. history' = Append(history, charge)
    BY <1>1
  <2> QED
    BY <2>1, <2>2
<1>7. Retries \in Nat /\ attempt \in 0 .. Retries - 1 /\ Len(served) \in Nat
  BY FetchAssumption DEF IInv
<1>8. Len(history) + 1 <= Retries * (Len(served) + 1)
  BY <1>3, <1>5, <1>7, AttemptsAreBounded
<1>9. Len(history) + 1 <= Retries * Len(served) + attempt + 1
  <2>1. Retries * Len(served) \in Int
    BY <1>7
  <2> QED
    BY <1>5, <1>7, <2>1
<1> QED
  BY <1>1, <1>4, <1>6, <1>8, <1>9

LEMMA PaceStep == IInv /\ PaceInv /\ [Next]_vars => PaceInv'
<1> SUFFICES ASSUME IInv, PaceInv, [Next]_vars PROVE PaceInv'
  OBVIOUS
<1>1. CASE RefuseRange \/ BeginLoad \/ Acquire \/ GiveUpWaiting \/ Yield
  BY <1>1 DEF RefuseRange, BeginLoad, Acquire, GiveUpWaiting, Yield, Fail, limiterVars, PaceInv
<1>2. CASE Served
  <2>1. /\ Answered("served") /\ pc' = "ready" /\ attempt' = 0
        /\ served' = Append(served, Request) /\ served \in Seq(Nat)
    BY <1>2 DEF Served, IInv
  <2>2. Len(served') = Len(served) + 1 /\ Len(served) \in Nat /\ Retries \in Nat
    BY <2>1, FetchAssumption
  <2>3. Len(history') <= Retries * Len(served')
        /\ IsSeq(history')
    BY <2>1, <2>2, AttemptIsACharge
  <2>4. Retries * Len(served') \in Int
    BY <2>2
  <2>5. Retries * Len(served') + attempt' = Retries * Len(served')
    BY <2>1, <2>4
  <2> QED
    BY <2>1, <2>3, <2>5 DEF PaceInv
<1>3. ASSUME NEW answer \in Answers, FailAtOnce(answer) PROVE PaceInv'
  <2>1. Answered(answer) /\ pc' = "failed"
    BY <1>3 DEF FailAtOnce, Fail
  <2> QED
    BY <2>1, AttemptIsACharge DEF PaceInv
<1>4. ASSUME NEW answer \in Answers, WorthARetry(answer) PROVE PaceInv'
  <2>1. /\ Answered(answer) /\ pc' \in {"failed", "backoff"} /\ UNCHANGED <<attempt, served>>
        /\ answer \in Transient /\ last' = answer
    BY <1>4 DEF WorthARetry, Fail, Answered
  <2> QED
    BY <2>1, AttemptIsACharge DEF PaceInv
<1>5. CASE Retry
  <2>1. /\ pc = "backoff" /\ pc' = "ready" /\ attempt' = attempt + 1 /\ UNCHANGED <<served, history>>
    BY <1>5 DEF Retry
  <2>2. Retries * Len(served) \in Int /\ attempt \in Int
    BY FetchAssumption DEF IInv
  <2>3. Retries * Len(served') + attempt' = Retries * Len(served) + attempt + 1
    BY <2>1, <2>2
  <2> QED
    BY <2>1, <2>3 DEF PaceInv
<1>6. CASE UNCHANGED vars
  BY <1>6 DEF vars, limiterVars, serverVars, PaceInv
<1> QED
  BY <1>1, <1>2, <1>3, <1>4, <1>5, <1>6 DEF Next

\* Nothing is granted where no attempt is out.
LEMMA StepsOfTheLimiter ==
  ASSUME IInv, PaceInv, [Next]_vars
  PROVE  [Limiter!Next]_(Limiter!vars)
<1>1. CASE RefuseRange \/ BeginLoad \/ Yield \/ UNCHANGED vars
  <2>1. UNCHANGED <<clock, spent, history>>
    BY <1>1 DEF RefuseRange, BeginLoad, Yield, limiterVars, vars
  <2>2. (IF pc = "calling" THEN Cost ELSE 0)' = IF pc = "calling" THEN Cost ELSE 0
    BY <1>1 DEF RefuseRange, BeginLoad, Yield, Fail, vars, Cost, Request
  <2> QED
    BY <2>1, <2>2 DEF Limiter!vars
<1>2. CASE Acquire
  <2>1. /\ pc = "ready" /\ pc' = "calling" /\ Request <= Len(plan.costs)
        /\ Limiter!Delay(spent, Cost, clock) <= MaxWait
        /\ clock' = clock + Limiter!Delay(spent, Cost, clock)
        /\ spent' = Limiter!Trim(spent, clock)
        /\ UNCHANGED <<plan, served, history>>
    BY <1>2 DEF Acquire
  <2>2. /\ Cost \in UNION {ToSet(p.costs) : p \in Plans} /\ Cost' = Cost
        /\ Len(served) + 1 <= Max({Len(p.costs) : p \in Plans})
        /\ Max({Len(p.costs) : p \in Plans}) \in Nat
    BY <2>1, CostsAreUnits DEF Cost, Request
  <2>3. Len(history) < Retries * Max({Len(p.costs) : p \in Plans})
    <3>1. Retries \in Nat /\ attempt \in 0 .. Retries - 1 /\ Len(served) \in Nat /\ Len(history) \in Nat
      BY FetchAssumption DEF IInv, PaceInv, IsSeq
    <3>2. Len(history) <= Retries * Len(served) + attempt
      BY <2>1 DEF PaceInv
    <3> QED
      BY <2>2, <3>1, <3>2, AttemptsAreBounded
  <2>4. Limiter!Acquire(Cost)
    BY <2>1, <2>2, <2>3 DEF Limiter!Acquire
  <2> QED
    BY <2>2, <2>4 DEF Limiter!Next
<1>3. CASE GiveUpWaiting
  <2>1. /\ pc = "ready" /\ pc' = "failed" /\ Request <= Len(plan.costs)
        /\ Limiter!Delay(spent, Cost, clock) > MaxWait
        /\ spent' = Limiter!Trim(spent, clock)
        /\ UNCHANGED <<clock, history>>
    BY <1>3 DEF GiveUpWaiting, Fail
  <2>2. Cost \in UNION {ToSet(p.costs) : p \in Plans}
    BY <2>1, CostsAreUnits
  <2>3. Limiter!Refuse(Cost)
    BY <2>1 DEF Limiter!Refuse
  <2> QED
    BY <2>2, <2>3 DEF Limiter!Next
<1>4. ASSUME NEW answer, Answered(answer), pc' # "calling"
      PROVE  [Limiter!Next]_(Limiter!vars)
  <2>1. Limiter!Charge(LatencyOf(answer)) /\ LatencyOf(answer) \in {QuickAnswer, Timeout}
    BY <1>4, AttemptIsACharge DEF LatencyOf
  <2> QED
    BY <2>1 DEF Limiter!Next
<1>5. CASE Retry
  <2>1. /\ pc = "backoff" /\ pc' = "ready" /\ clock' = clock + WaitAfter(last)
        /\ UNCHANGED <<spent, history>>
    BY <1>5 DEF Retry
  <2> DEFINE pauses == {Backoff * n : n \in 1 .. Retries} \cup {RetryAfter[r] : r \in Refusals}
  <2>2. WaitAfter(last) \in pauses
    <3>1. attempt + 1 \in 1 .. Retries
      BY <2>1, FetchAssumption DEF IInv
    <3> QED
      BY <3>1 DEF WaitAfter
  <2>3. Len(history) \in 1 .. Retries * Max({Len(p.costs) : p \in Plans}) - 1
    <3>1. /\ Retries \in Nat /\ attempt + 1 \in 0 .. Retries - 1 /\ Len(served) \in Nat
          /\ Len(history) \in Nat /\ Request <= Len(plan.costs)
      <4>1. Retries \in Nat /\ Len(history) \in Nat
        BY FetchAssumption DEF PaceInv, IsSeq
      <4>2. attempt \in 0 .. Retries - 1 /\ attempt < Retries - 1 /\ Request <= Len(plan.costs)
        BY <2>1 DEF IInv
      <4>3. Len(served) \in Nat
        BY DEF IInv
      <4> QED
        BY <4>1, <4>2, <4>3
    <3>2. Len(history) <= Retries * Len(served) + (attempt + 1)
      <4>1. Retries * Len(served) \in Int /\ attempt \in Int
        BY <3>1, FetchAssumption DEF IInv
      <4>2. Retries * Len(served) + (attempt + 1) = Retries * Len(served) + attempt + 1
        BY <4>1
      <4> QED
        BY <2>1, <4>2 DEF PaceInv
    <3>3. Len(history) < Retries * Max({Len(p.costs) : p \in Plans})
      BY <3>1, <3>2, CostsAreUnits, AttemptsAreBounded
    <3>4. Len(history) # 0
      BY <2>1 DEF PaceInv
    <3>5. Retries * Max({Len(p.costs) : p \in Plans}) \in Int
      BY <3>1, CostsAreUnits
    <3> QED
      BY <3>1, <3>3, <3>4, <3>5
  <2>4. clock = history[Len(history)].at
    BY <2>1 DEF PaceInv
  <2>5. Limiter!Pause(WaitAfter(last))
    BY <2>1, <2>3, <2>4 DEF Limiter!Pause, Limiter!Last
  <2> QED
    BY <2>2, <2>5 DEF Limiter!Next
<1>6. CASE Served
  BY <1>4, <1>6 DEF Served
<1>7. ASSUME NEW answer \in Answers, FailAtOnce(answer) \/ WorthARetry(answer)
      PROVE  [Limiter!Next]_(Limiter!vars)
  <2>1. Answered(answer) /\ pc' \in {"failed", "backoff"}
    BY <1>7 DEF FailAtOnce, WorthARetry, Fail
  <2> QED
    BY <1>4, <2>1
<1> QED
  BY <1>1, <1>2, <1>3, <1>5, <1>6, <1>7 DEF Next

\* A load implements the limiter's protocol, whatever it is answered: no attempt goes out
\* unpaced and none is left uncharged, and it never waits but after a charge
\* (get_weather_json, acquire, charge).
THEOREM LoadsUseTheLimiter == Spec => UsesTheLimiter
<1>1. Init => Limiter!Init
  BY DEF Init, Limiter!Init
<1>2. IInv /\ PaceInv /\ [Next]_vars => [Limiter!Next]_(Limiter!vars)
  BY StepsOfTheLimiter
<1> QED
  BY IInvInit, IInvNext, PaceInit, PaceStep, <1>1, <1>2, PTL DEF Spec, UsesTheLimiter

-----------------------------------------------------------------------------
(* The budgets: what is proved of the limiter holds of it here. *)

Paced == INSTANCE WindowLimiterProofs WITH
  Costs      <- UNION {ToSet(p.costs) : p \in Plans},
  Latencies  <- {QuickAnswer, Timeout},
  Pauses     <- {Backoff * n : n \in 1 .. Retries}
                  \cup {RetryAfter[r] : r \in Refusals},
  MaxCharges <- Retries * Max({Len(p.costs) : p \in Plans}),
  granted    <- IF pc = "calling" THEN Cost ELSE 0

\* The limiter of this load is one as WindowLimiter assumes it.
LEMMA LimiterIsAssumed == Paced!LimitsAssumption /\ Paced!CallerAssumption
<1>1. Paced!LimitsAssumption
  <2>1. Paced!IsFiniteSet(Limits)
    BY FetchAssumption, Zenon DEF IsFiniteSet, Paced!IsFiniteSet
  <2> QED
    BY <2>1, FetchAssumption DEF Paced!LimitsAssumption
<1>2. UNION {ToSet(p.costs) : p \in Plans} \subseteq Nat \ {0}
  <2> SUFFICES ASSUME NEW p \in Plans, NEW u \in ToSet(p.costs) PROVE u \in Nat \ {0}
    OBVIOUS
  <2>1. p.costs \in Seq(Nat \ {0})
    BY FetchAssumption
  <2> QED
    BY <2>1 DEF ToSet
<1>3. {Backoff * n : n \in 1 .. Retries} \subseteq Nat \ {0}
  <2> SUFFICES ASSUME NEW n \in 1 .. Retries PROVE Backoff * n \in Nat \ {0}
    OBVIOUS
  <2>1. Backoff \in Nat \ {0} /\ n \in Nat \ {0}
    BY FetchAssumption
  <2> QED
    BY <2>1
<1>4. {RetryAfter[r] : r \in Refusals} \subseteq Nat \ {0}
  BY FetchAssumption
<1>5. Retries * Max({Len(p.costs) : p \in Plans}) \in Nat
  <2>1. Max({Len(p.costs) : p \in Plans}) \in Nat
    BY LongestPlan
  <2> QED
    BY <2>1, FetchAssumption
<1> QED
  BY <1>1, <1>2, <1>3, <1>4, <1>5, FetchAssumption DEF Paced!CallerAssumption

LEMMA SameSum ==
  ASSUME NEW q, NEW window, NEW now
  PROVE  Limiter!SpentWithin(q, window, now) = Paced!SpentWithin(q, window, now)
BY DEF Limiter!SpentWithin, Paced!SpentWithin, Limiter!Totals, Paced!Totals,
       Limiter!Counts, Paced!Counts

LEMMA SameTrim ==
  ASSUME NEW q, NEW now
  PROVE  Limiter!Trim(q, now) = Paced!Trim(q, now)
BY DEF Limiter!Trim, Paced!Trim, Limiter!Windows, Paced!Windows,
       Limiter!Max, Paced!Max, Limiter!Min, Paced!Min

LEMMA SameDelay ==
  ASSUME NEW q, NEW units, NEW now
  PROVE  Limiter!Delay(q, units, now) = Paced!Delay(q, units, now)
BY DEF Limiter!Delay, Paced!Delay, Limiter!WindowDelay, Paced!WindowDelay,
       Limiter!Drained, Paced!Drained, Limiter!SpentWithin, Paced!SpentWithin,
       Limiter!Totals, Paced!Totals, Limiter!Counts, Paced!Counts,
       Limiter!Max, Paced!Max, Limiter!Min, Paced!Min

\* A load makes the steps the limiter's theorems are about.
LEMMA SameProtocol == UsesTheLimiter => Paced!Spec
<1>1. Limiter!Init = Paced!Init
  BY DEF Limiter!Init, Paced!Init
<1>2. Limiter!Next = Paced!Next
  BY SameTrim, SameDelay DEF Limiter!Next, Paced!Next, Limiter!Acquire, Paced!Acquire, Limiter!Refuse, Paced!Refuse,
       Limiter!Charge, Paced!Charge, Limiter!Pause, Paced!Pause, Limiter!Last, Paced!Last
<1>3. [Limiter!Next]_(Limiter!vars) => [Paced!Next]_(Paced!vars)
  BY <1>2 DEF Limiter!vars, Paced!vars
<1>4. Limiter!Init => Paced!Init
  BY <1>1
<1> QED
  BY <1>3, <1>4, PTL DEF UsesTheLimiter, Paced!Spec

\* The limiter's own invariant holds throughout a load.
LEMMA LimiterInvariant == Spec => []Paced!IInv
BY LoadsUseTheLimiter, SameProtocol, LimiterIsAssumed, Paced!InvariantHolds, PTL

\* From now on no window counts more of what was billed than of what was charged.
NoMoreBilled(b, h, now) ==
  \A l \in Limits, t \in Nat :
    now <= t => Paced!SpentWithin(b, l.window, t) <= Paced!SpentWithin(h, l.window, t)

BillInv == billed \in Seq(Paced!Charges) /\ NoMoreBilled(billed, history, clock)

\* What the limiter's invariant says of the variables a load shares with it.
LEMMA LimiterTypes ==
  ASSUME Paced!IInv
  PROVE  clock \in Nat /\ history \in Seq(Paced!Charges)
BY LimiterIsAssumed, Paced!Known

\* A bill is dated no later than the charge for the same request, so it leaves every window
\* no later either; and a request that was not billed counts for nothing.
LEMMA BillsFollowCharges ==
  ASSUME NEW b \in Seq(Paced!Charges), NEW h \in Seq(Paced!Charges), NEW now \in Nat,
         NoMoreBilled(b, h, now), NEW charge \in Paced!Charges, NEW bill \in Paced!Charges,
         now <= charge.at, bill.at <= charge.at, bill.units = charge.units
  PROVE  /\ NoMoreBilled(Append(b, bill), Append(h, charge), charge.at)
         /\ NoMoreBilled(b, Append(h, charge), charge.at)
<1>1. charge.at \in Nat /\ bill.at \in Nat /\ charge.units \in Nat
  BY DEF Paced!Charges
<1>2. ASSUME NEW l \in Limits, NEW t \in Nat, charge.at <= t
      PROVE  /\ Paced!SpentWithin(Append(b, bill), l.window, t)
                  <= Paced!SpentWithin(Append(h, charge), l.window, t)
             /\ Paced!SpentWithin(b, l.window, t)
                  <= Paced!SpentWithin(Append(h, charge), l.window, t)
  <2>1. l.window \in Nat
    BY FetchAssumption
  <2>2. Paced!SpentWithin(Append(b, bill), l.window, t) =
          Paced!SpentWithin(b, l.window, t) + (IF t - bill.at < l.window THEN bill.units ELSE 0)
    BY <2>1, LimiterIsAssumed, Paced!ChargeCounts
  <2>3. Paced!SpentWithin(Append(h, charge), l.window, t) =
          Paced!SpentWithin(h, l.window, t) + (IF t - charge.at < l.window THEN charge.units ELSE 0)
    BY <2>1, LimiterIsAssumed, Paced!ChargeCounts
  <2>4. Paced!SpentWithin(b, l.window, t) \in Nat /\ Paced!SpentWithin(h, l.window, t) \in Nat
    BY <2>1, LimiterIsAssumed, Paced!CountsClimb
  <2>5. Paced!SpentWithin(b, l.window, t) <= Paced!SpentWithin(h, l.window, t)
    <3>1. now <= t
      BY <1>1, <1>2
    <3> QED
      BY <3>1 DEF NoMoreBilled
  <2>6. t - bill.at < l.window => t - charge.at < l.window
    BY <1>1, <2>1
  <2> QED
    BY <1>1, <2>2, <2>3, <2>4, <2>5, <2>6
<1> QED
  BY <1>2 DEF NoMoreBilled

LEMMA BillInvInit == Init => BillInv
<1> SUFFICES ASSUME Init PROVE BillInv
  OBVIOUS
<1>1. billed = <<>> /\ history = <<>> /\ clock = 0
  BY DEF Init
<1>2. <<>> \in Seq(Paced!Charges)
  BY EmptySeq
<1>3. NoMoreBilled(<<>>, <<>>, 0)
  <2> SUFFICES ASSUME NEW l \in Limits, NEW t \in Nat
               PROVE  Paced!SpentWithin(<<>>, l.window, t) <= Paced!SpentWithin(<<>>, l.window, t)
    BY DEF NoMoreBilled
  <2>1. Paced!SpentWithin(<<>>, l.window, t) \in Nat
    BY <1>2, FetchAssumption, LimiterIsAssumed, Paced!CountsClimb
  <2> QED
    BY <2>1
<1> QED
  BY <1>1, <1>2, <1>3 DEF BillInv

LEMMA BillInvAnswered ==
  ASSUME IInv, Paced!IInv, BillInv, NEW answer, Answered(answer)
  PROVE  BillInv'
<1> DEFINE latency == LatencyOf(answer)
           charge == [at |-> clock + latency, units |-> Cost]
           bill == [at |-> IF bills = "on_answer" THEN clock + latency ELSE clock, units |-> Cost]
<1>1. /\ pc = "calling" /\ clock' = clock + latency /\ history' = Append(history, charge)
      /\ billed' = Append(billed, bill) \/ billed' = billed
  BY DEF Answered, ChargeAttempt, Bill
<1>2. Cost \in Nat \ {0}
  BY <1>1, CostsAreUnits DEF IInv
<1>3. clock \in Nat /\ latency \in Nat /\ history \in Seq(Paced!Charges)
  BY LimiterTypes, FetchAssumption DEF LatencyOf
<1>4. /\ charge \in Paced!Charges /\ bill \in Paced!Charges
      /\ charge.at = clock + latency /\ bill.at <= charge.at /\ bill.units = charge.units
      /\ clock <= charge.at
  BY <1>2, <1>3 DEF Paced!Charges
<1> HIDE DEF charge, bill, latency
<1>5. /\ NoMoreBilled(Append(billed, bill), Append(history, charge), charge.at)
      /\ NoMoreBilled(billed, Append(history, charge), charge.at)
      /\ billed \in Seq(Paced!Charges)
  BY <1>3, <1>4, BillsFollowCharges DEF BillInv
<1>6. Append(billed, bill) \in Seq(Paced!Charges)
  BY <1>4, <1>5
<1> QED
  BY <1>1, <1>4, <1>5, <1>6 DEF BillInv

\* Nothing is charged or billed while time passes.
LEMMA BillInvWaits ==
  ASSUME BillInv, Paced!IInv, clock' \in Nat, clock <= clock', UNCHANGED <<history, billed>>
  PROVE  BillInv'
<1>1. clock \in Nat
  BY LimiterTypes
<1>2. NoMoreBilled(billed, history, clock')
  <2> SUFFICES ASSUME NEW l \in Limits, NEW t \in Nat, clock' <= t
               PROVE  Paced!SpentWithin(billed, l.window, t) <= Paced!SpentWithin(history, l.window, t)
    BY DEF NoMoreBilled
  <2>1. clock <= t
    BY <1>1
  <2> QED
    BY <2>1 DEF BillInv, NoMoreBilled
<1> QED
  BY <1>2 DEF BillInv

LEMMA BillInvNext == IInv /\ Paced!IInv /\ BillInv /\ [Next]_vars => BillInv'
<1> SUFFICES ASSUME IInv, Paced!IInv, BillInv, [Next]_vars PROVE BillInv'
  OBVIOUS
<1>0. clock \in Nat
  BY LimiterTypes
<1>1. CASE RefuseRange \/ BeginLoad \/ GiveUpWaiting \/ Yield \/ UNCHANGED vars
  BY <1>0, <1>1, BillInvWaits
     DEF RefuseRange, BeginLoad, GiveUpWaiting, Yield, limiterVars, serverVars, vars
<1>2. CASE Acquire
  <2>1. /\ clock' = clock + Limiter!Delay(spent, Cost, clock) /\ UNCHANGED <<history, billed>>
        /\ Request <= Len(plan.costs)
    BY <1>2 DEF Acquire, serverVars
  <2>2. Cost \in Nat \ {0} /\ Paced!Deque(spent, clock)
    BY <2>1, CostsAreUnits, LimiterIsAssumed, Paced!Known
  <2>3. Limiter!Delay(spent, Cost, clock) \in Nat
    BY <1>0, <2>2, SameDelay, LimiterIsAssumed, Paced!DelayIsTheLongest
  <2>4. clock' \in Nat /\ clock <= clock'
    BY <1>0, <2>1, <2>3
  <2> QED
    BY <2>1, <2>4, BillInvWaits
<1>3. CASE Retry
  <2>1. clock' = clock + WaitAfter(last) /\ pc = "backoff" /\ UNCHANGED <<history, billed>>
    BY <1>3 DEF Retry, serverVars
  <2>2. WaitAfter(last) \in Nat
    <3>1. attempt + 1 \in Nat /\ Backoff \in Nat
      BY FetchAssumption DEF IInv
    <3>2. Backoff * (attempt + 1) \in Nat
      BY <3>1
    <3>3. \A r \in Refusals : RetryAfter[r] \in Nat
      BY FetchAssumption
    <3> QED
      BY <3>2, <3>3 DEF WaitAfter
  <2>3. clock' \in Nat /\ clock <= clock'
    BY <1>0, <2>1, <2>2
  <2> QED
    BY <2>1, <2>3, BillInvWaits
<1>4. ASSUME NEW answer, Answered(answer) PROVE BillInv'
  BY <1>4, BillInvAnswered
<1> QED
  BY <1>1, <1>2, <1>3, <1>4 DEF Next, Served, FailAtOnce, WorthARetry

\* What a failed load says of its end.
CauseInv == cause \in {"none", "unaffordable", "budget", "exhausted"} \cup Fatal

LEMMA CauseStep == CauseInv /\ [Next]_vars => CauseInv'
BY DEF CauseInv, Next, vars, RefuseRange, BeginLoad, Acquire, GiveUpWaiting, Served, FailAtOnce,
       WorthARetry, Retry, Yield, Fail

\* Whatever the plan and the answers, while the address is this load's alone Open-Meteo's own
\* tally never refuses it: when a request goes out every window has room for it or is empty
\* (get_weather_json, acquire, charge).
THEOREM AloneIsNeverRefused == Spec => []WithinTheBudgets
<1>1. Init => CauseInv
  BY DEF Init, CauseInv
<1>2. IInv /\ Paced!IInv /\ CauseInv => TypeOK
  <2> SUFFICES ASSUME IInv, Paced!IInv, CauseInv PROVE TypeOK
    OBVIOUS
  <2>1. served \in Seq(1 .. Len(plan.costs))
    <3>1. /\ served \in Seq(Nat) /\ Len(served) <= Len(plan.costs) /\ Len(plan.costs) \in Nat
          /\ \A i \in 1 .. Len(served) : served[i] = i
      BY PlansAreTyped DEF IInv
    <3>2. served \in [1 .. Len(served) -> 1 .. Len(plan.costs)] /\ Len(served) \in Nat
      BY <3>1
    <3> QED
      BY <3>2
  <2> QED
    BY <2>1, LimiterTypes DEF IInv, CauseInv, TypeOK
<1>3. IInv /\ Paced!IInv /\ BillInv => AloneNeverOverBudget
  <2> SUFFICES ASSUME IInv, Paced!IInv, BillInv, pc = "calling", NEW l \in Limits
               PROVE  LET tally == Limiter!SpentWithin(billed, l.window, clock)
                      IN  tally + Cost <= l.budget \/ tally = 0
    BY DEF AloneNeverOverBudget
  <2> DEFINE tally == Paced!SpentWithin(billed, l.window, clock)
             held == Paced!SpentWithin(history, l.window, clock)
  <2>1. /\ Cost \in Nat \ {0} /\ clock \in Nat /\ clock <= clock
        /\ l.window \in Nat /\ l.budget \in Nat
    <3>1. Request <= Len(plan.costs)
      BY DEF IInv
    <3>2. Cost \in Nat \ {0}
      BY <3>1, CostsAreUnits
    <3>3. clock \in Nat /\ clock <= clock
      BY LimiterTypes
    <3> QED
      BY <3>2, <3>3, FetchAssumption
  <2>2. tally \in Nat /\ held \in Nat
    BY <2>1, LimiterTypes, LimiterIsAssumed, Paced!CountsClimb DEF BillInv
  <2>3. tally <= held
    BY <2>1 DEF BillInv, NoMoreBilled
  <2>4. held + Cost <= l.budget \/ held = 0
    BY <2>1 DEF Paced!IInv, Paced!HasRoom
  <2>5. Limiter!SpentWithin(billed, l.window, clock) = tally
    BY SameSum
  <2> HIDE DEF tally, held
  <2> QED
    BY <2>1, <2>2, <2>3, <2>4, <2>5
<1> QED
  BY IInvInit, IInvNext, BillInvInit, BillInvNext, LimiterInvariant, CauseStep, <1>1, <1>2, <1>3, PTL
     DEF Spec, WithinTheBudgets
==============================================================================
