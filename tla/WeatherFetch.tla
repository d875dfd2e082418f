----------------------------- MODULE WeatherFetch -----------------------------
(***************************************************************************)
(* One weather load of src/ingest/sources/weather.py: om_weather_daily     *)
(* asks Open-Meteo for one request per calendar year, each through         *)
(* get_weather_json, which paces it against the limiter, charges every     *)
(* attempt and retries.  The rows are yielded once, after the last answer. *)
(*                                                                         *)
(* Open-Meteo is external: it answers as it likes (other tenants share its *)
(* budget) and bills a request when it arrives or when it is answered; a   *)
(* request whose connection died may or may not have been billed.          *)
(* Time is counted in half seconds, units as Open-Meteo's.                 *)
(***************************************************************************)
EXTENDS Integers, SequencesExt, FiniteSetsExt

CONSTANTS
  Limits, MaxWait,   \* WEATHER_RATE_LIMITS and WEATHER_MAX_WAIT_SECONDS
  Retries,           \* WEATHER_RETRIES: attempts per request
  Backoff,           \* WEATHER_BACKOFF_SECONDS
  RetryAfter,        \* WEATHER_RETRY_AFTER_SECONDS by the window a 429 names
  Plans,             \* the loads: [costs: units of each request, backfill, and the
                     \* bounds faults and answers]
  YearCost,          \* what one full year costs
  Answers,           \* the answers Open-Meteo gives
  QuickAnswer,       \* how long an answer takes
  Timeout,           \* how long a request hangs before it is given up
  StepTimeout        \* how long the workflow lets a backfill take

Refusals == {"minutely", "hourly", "unnamed"}
Transient == Refusals \cup {"server_error", "unparseable", "reset", "timeout"}
Fatal == {"daily", "client_error"}

ASSUME FetchAssumption ==
  /\ Limits # {} /\ IsFiniteSet(Limits) /\ MaxWait \in Nat \ {0}
  /\ \A l \in Limits : l.window \in Nat \ {0} /\ l.budget \in Nat \ {0}
  /\ {Retries, Backoff} \subseteq Nat \ {0} /\ {QuickAnswer, Timeout} \subseteq Nat
  /\ RetryAfter \in [Refusals -> Nat \ {0}]
  /\ Plans # {} /\ IsFiniteSet(Plans)
  /\ \A p \in Plans : p \in [costs : Seq(Nat \ {0}), backfill : BOOLEAN, faults : Nat, answers : SUBSET Answers]
  /\ Answers \subseteq {"served"} \cup Transient \cup Fatal

VARIABLES
  plan,      \* the load being run
  pc,        \* where the run is
  attempt,   \* the attempt get_weather_json is on, from 0
  last,      \* what the last attempt was answered
  served,    \* requests answered, in order, by their position in the plan
  yielded,   \* the answers the resource handed to dlt
  cause,     \* why the run failed
  clock, spent,   \* the clock and the limiter's deque
  history,        \* auxiliary: every charge the limiter took
  bills,          \* auxiliary: when Open-Meteo bills a request
  billed          \* auxiliary: every charge Open-Meteo took for this run

limiterVars == <<clock, spent, history>>
serverVars == <<bills, billed>>
vars == <<plan, pc, attempt, last, served, yielded, cause,
          clock, spent, history, bills, billed>>

Request == Len(served) + 1
Cost == plan.costs[Request]
Total(p) == FoldFunction(+, 0, p.costs)

\* The limiter as its caller uses it; a request in flight is what it granted.
Limiter == INSTANCE WindowLimiter WITH
  Costs      <- UNION {ToSet(p.costs) : p \in Plans},
  Latencies  <- {QuickAnswer, Timeout},
  Pauses     <- {Backoff * n : n \in 1 .. Retries}
                  \cup {RetryAfter[r] : r \in Refusals},
  MaxCharges <- Retries * Max({Len(p.costs) : p \in Plans}),
  granted    <- IF pc = "calling" THEN Cost ELSE 0

HourBudget ==
  (CHOOSE l \in Limits :
     Cardinality({k \in Limits : k.window < l.window}) = 1).budget
MinuteWindow == Min({l.window : l \in Limits})

------------------------------------------------------------------------------
Init ==
  /\ plan \in Plans
  /\ pc = "start"
  /\ attempt = 0
  /\ last = "none"
  /\ served = <<>>
  /\ yielded = <<>>
  /\ cause = "none"
  /\ clock = 0
  /\ spent = <<>>
  /\ history = <<>>
  /\ bills \in {"on_arrival", "on_answer"}
  /\ billed = <<>>

Fail(why) == pc' = "failed" /\ cause' = why

\* Fault: no room for a retry.
AffordableIfServed(p) == Total(p) <= HourBudget

\* check_weather_range_is_affordable: a backfill must leave room, within an
\* hour's allowance, for one more year's request.
Affordable(p) == Total(p) + YearCost <= HourBudget

RefuseRange ==
  /\ pc = "start"
  /\ plan.backfill /\ ~Affordable(plan)
  /\ Fail("unaffordable")
  /\ UNCHANGED <<plan, attempt, last, served, yielded, limiterVars, serverVars>>

BeginLoad ==
  /\ pc = "start"
  /\ plan.backfill => Affordable(plan)
  /\ pc' = "ready"
  /\ UNCHANGED <<plan, attempt, last, served, yielded, cause, limiterVars, serverVars>>

\* limiter.acquire: the request goes out once its wait is over.
Acquire ==
  /\ pc = "ready"
  /\ Request <= Len(plan.costs)
  /\ LET delay == Limiter!Delay(spent, Cost, clock)
     IN  delay <= MaxWait /\ clock' = clock + delay
  /\ spent' = Limiter!Trim(spent, clock)
  /\ pc' = "calling"
  /\ UNCHANGED <<plan, attempt, last, served, yielded, cause, history, serverVars>>

\* WaitTooLong: the run ends rather than sleep that long.
GiveUpWaiting ==
  /\ pc = "ready"
  /\ Request <= Len(plan.costs)
  /\ Limiter!Delay(spent, Cost, clock) > MaxWait
  /\ spent' = Limiter!Trim(spent, clock)
  /\ Fail("budget")
  /\ UNCHANGED <<plan, attempt, last, served, yielded, clock, history, serverVars>>

\* Fault: the charge is dated when the request was sent.
ChargeWhenSent(latency) ==
  LET charge == [at |-> clock, units |-> Cost]
  IN  /\ clock' = clock + latency
      /\ spent' = Append(Limiter!Trim(spent, clock), charge)
      /\ history' = Append(history, charge)

\* The attempt ends after latency, answered or not, and is charged either way.
ChargeAttempt(latency) ==
  LET charge == [at |-> clock + latency, units |-> Cost]
  IN  /\ clock' = clock + latency
      /\ spent' = Append(Limiter!Trim(spent, clock + latency), charge)
      /\ history' = Append(history, charge)

\* What Open-Meteo bills for it (external).
Bill(answer, latency) ==
  /\ \/ billed' = Append(billed,
            [at    |-> IF bills = "on_answer" THEN clock + latency ELSE clock,
             units |-> Cost])
     \/ answer \in {"reset", "timeout"} /\ UNCHANGED billed
  /\ UNCHANGED bills

LatencyOf(answer) == IF answer = "timeout" THEN Timeout ELSE QuickAnswer

\* How many attempts so far were not served.
Faults == Len(history) - Len(served)

Answered(answer) ==
  /\ pc = "calling"
  /\ answer \in plan.answers                            \* bound
  /\ answer # "served" => Faults < plan.faults          \* bound
  /\ ChargeAttempt(LatencyOf(answer))
  /\ Bill(answer, LatencyOf(answer))
  /\ last' = answer
  /\ UNCHANGED <<plan, yielded>>

\* A parsed 200: on to the next request.
Served ==
  /\ Answered("served")
  /\ served' = Append(served, Request)
  /\ attempt' = 0
  /\ pc' = "ready"
  /\ UNCHANGED cause

\* A spent daily budget, or any 4xx but 429, is raised at once.
FailAtOnce(answer) ==
  /\ answer \in Fatal
  /\ Answered(answer)
  /\ Fail(answer)
  /\ UNCHANGED <<attempt, served>>

\* Fault: the last attempt is followed by another wait.
OneRetryTooMany(answer) ==
  /\ answer \in Transient
  /\ Answered(answer)
  /\ IF attempt = Retries
     THEN Fail("exhausted")
     ELSE pc' = "backoff" /\ UNCHANGED cause
  /\ UNCHANGED <<attempt, served>>

\* A 429, a 5xx, a lost connection or a body that does not parse: worth
\* another attempt while there is one.
WorthARetry(answer) ==
  /\ answer \in Transient
  /\ Answered(answer)
  /\ IF attempt = Retries - 1
     THEN Fail("exhausted")
     ELSE pc' = "backoff" /\ UNCHANGED cause
  /\ UNCHANGED <<attempt, served>>

\* Fault: an hourly refusal waits for the whole hour.
WaitOutTheHour(answer) ==
  IF answer = "hourly" THEN 7200
  ELSE IF answer \in Refusals THEN RetryAfter[answer] ELSE Backoff * (attempt + 1)

\* A 429 waits what its message says, anything else a linear backoff.
WaitAfter(answer) ==
  IF answer \in Refusals THEN RetryAfter[answer] ELSE Backoff * (attempt + 1)

\* Faults: a retry that is not counted; a retry that skips the limiter.
RetryForever ==
  /\ pc = "backoff"
  /\ clock' = clock + WaitAfter(last)
  /\ pc' = "ready"
  /\ UNCHANGED <<plan, attempt, last, served, yielded, cause, spent, history,
                 serverVars>>
RetryUnpaced ==
  /\ pc = "backoff"
  /\ clock' = clock + WaitAfter(last)
  /\ attempt' = attempt + 1
  /\ pc' = "calling"
  /\ UNCHANGED <<plan, last, served, yielded, cause, spent, history, serverVars>>

Retry ==
  /\ pc = "backoff"
  /\ clock' = clock + WaitAfter(last)
  /\ attempt' = attempt + 1
  /\ pc' = "ready"
  /\ UNCHANGED <<plan, last, served, yielded, cause, spent, history, serverVars>>

\* Fault: what has been answered so far goes to dlt.
YieldSoFar ==
  /\ pc = "ready"
  /\ yielded' = served
  /\ pc' = "done"
  /\ UNCHANGED <<plan, attempt, last, served, cause, limiterVars, serverVars>>

\* Every window answered: the rows of all of them go to dlt in one yield.
Yield ==
  /\ pc = "ready"
  /\ Len(served) = Len(plan.costs)
  /\ yielded' = served
  /\ pc' = "done"
  /\ UNCHANGED <<plan, attempt, last, served, cause, limiterVars, serverVars>>

Ended == pc \in {"done", "failed"}

Next ==
  \/ RefuseRange \/ BeginLoad
  \/ Acquire \/ GiveUpWaiting
  \/ Served
  \/ \E answer \in Answers : FailAtOnce(answer) \/ WorthARetry(answer)
  \/ Retry \/ Yield
  \/ Ended /\ UNCHANGED vars

Spec == Init /\ [][Next]_vars

------------------------------------------------------------------------------
\* Types of the run's state.
TypeOK ==
  /\ plan \in Plans
  /\ pc \in {"start", "ready", "calling", "backoff", "done", "failed"}
  /\ attempt \in 0 .. Retries - 1
  /\ served \in Seq(1 .. Len(plan.costs))
  /\ cause \in {"none", "unaffordable", "budget", "exhausted"} \cup Fatal
  /\ clock \in Nat

\* The resource is all or nothing: whatever mix of answers, retries and
\* failures came before, dlt sees either nothing or every window of the plan,
\* once each and oldest first, which is how _weather_rows finds the edge.
AllOrNothing ==
  yielded # <<>> => yielded = [i \in 1 .. Len(plan.costs) |-> i]

\* A run alone on its address is never refused: whenever a request goes out,
\* Open-Meteo's own tally of the run, billed at moments the run cannot see and
\* including requests that died unanswered, still has room for it in every
\* window, or is empty for one larger than the window.
AloneNeverOverBudget ==
  pc = "calling" =>
    \A l \in Limits :
      LET tally == Limiter!SpentWithin(billed, l.window, clock)
      IN  tally + Cost <= l.budget \/ tally = 0

\* A backfill that passed the check ends inside its workflow step whatever it
\* was answered, with at most two attempts wasted: "the timeout covers one
\* hourly wait after refused attempts".
FitsTheStep == plan.backfill /\ Faults <= 2 => clock <= StepTimeout

\* A backfill that passed the affordability check, and a cold start, are paced
\* by the minute alone while at most one of their attempts is wasted: the
\* headroom of one year keeps the run off the hour's window.
PacedByTheMinute ==
  (pc = "ready" /\ Request <= Len(plan.costs) /\ Affordable(plan) /\ Faults <= 1)
    => Limiter!Delay(spent, Cost, clock) <= MinuteWindow

\* However Open-Meteo answers, a load ends, with its rows or with an error:
\* every step leaves less to do, counted in attempts the plan still allows.
\* (Deadlock is checked too, so a run cannot stop before its end either.)
Work ==
  LET rank == [start |-> 4, ready |-> 3, calling |-> 2, backoff |-> 1,
               done |-> 0, failed |-> 0]
  IN  4 * (Retries * (Len(plan.costs) - Len(served)) - attempt) + rank[pc]

RunsDown == [][Work' < Work]_vars

\* Every attempt, wait and refusal of a load is one the limiter's protocol
\* allows: in particular no attempt goes out unpaced or is left uncharged.
UsesTheLimiter == Limiter!Init /\ [][Limiter!Next]_(Limiter!vars)

\* However many attempts a load makes, its limiter and Open-Meteo's own tally agree that
\* no window is past its budget (get_weather_json, acquire, charge).
WithinTheBudgets == TypeOK /\ AloneNeverOverBudget

\* What check_weather_range_is_affordable lets through waits for the minute only while one
\* attempt is wasted, and ends inside the workflow's step while two are.
AffordableLoadsFit == PacedByTheMinute /\ FitsTheStep
==============================================================================
