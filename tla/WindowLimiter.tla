---------------------------- MODULE WindowLimiter ----------------------------
(***************************************************************************)
(* src/modern_data_stack/ratelimit.py: a sliding-window budget for an API  *)
(* that charges by volume.  One sequential caller asks the limiter for     *)
(* leave to spend units (acquire), makes its request, and charges the      *)
(* units once the request is over (charge).                                *)
(*                                                                         *)
(* A limit is a record [window, budget]; a charge is a record [at, units]. *)
(* The clock is advanced only by what takes time: a sleep, a request, or   *)
(* whatever the caller does between two requests.                          *)
(***************************************************************************)
EXTENDS Integers, SequencesExt

CONSTANTS
  Limits,       \* set of [window, budget] the limiter enforces together
  MaxWait,      \* the longest sleep acquire may take
  Costs,        \* the units a request may cost
  Latencies,    \* how long a request may take
  Pauses,       \* how long the caller may be away between two requests
  MaxCharges    \* bound: how many requests a behaviour makes

ASSUME LimitsAssumption ==
  /\ Limits # {} /\ IsFiniteSet(Limits)
  /\ \A l \in Limits : l.window \in Nat \ {0} /\ l.budget \in Nat \ {0}
ASSUME CallerAssumption ==
  /\ MaxWait \in Nat \ {0} /\ Costs \subseteq Nat \ {0}
  /\ Latencies \subseteq Nat /\ Pauses \subseteq Nat \ {0} /\ MaxCharges \in Nat

VARIABLES
  clock,    \* the injected monotonic clock
  spent,    \* the limiter's deque of charges, oldest first
  granted,  \* the units acquire has let through and not yet charged, 0 if none
  history   \* auxiliary: every charge ever made, never trimmed

vars == <<clock, spent, granted, history>>

------------------------------------------------------------------------------
(* The limiter's arithmetic, over a deque q read at time now. *)

Windows == {l.window : l \in Limits}

\* Fault: the deque forgets what only the wider windows still count.
TrimToTheNarrowest(q, now) == SelectSeq(q, LAMBDA c : now - c.at < Min(Windows))

\* Charges at least as old as the widest window leave from the front.
Trim(q, now) ==
  LET young == {i \in DOMAIN q : now - q[i].at < Max(Windows)}
  IN  IF young = {} THEN <<>> ELSE SubSeq(q, Min(young), Len(q))

\* The running totals of a sequence of numbers, from before the first one on.
Totals(v) ==
  LET total[n \in 0 .. Len(v)] == IF n = 0 THEN 0 ELSE total[n - 1] + v[n]
  IN  total

\* What each charge still counts for in a window.
Counts(q, window, now) ==
  [i \in 1 .. Len(q) |-> IF now - q[i].at < window THEN q[i].units ELSE 0]

SpentWithin(q, window, now) == Totals(Counts(q, window, now))[Len(q)]

\* The charges of a window whose expiry leaves no more than target outstanding.
Drained(q, window, now, target) ==
  LET total == Totals(Counts(q, window, now))
  IN  {i \in 1 .. Len(q) : /\ now - q[i].at < window
                           /\ total[Len(q)] - total[i] <= target}

\* Fault: the wait makes room for what was spent, not for the request to come.
RoomForTheRestOnly(q, limit, units, now) ==
  LET drained == Drained(q, limit.window, now, limit.budget)
  IN  IF SpentWithin(q, limit.window, now) + units <= limit.budget \/ drained = {}
      THEN 0
      ELSE q[Min(drained)].at + limit.window - now

\* Fault: the wait is for an empty window, whatever the request needs.
WaitForEmpty(q, limit, units, now) ==
  LET drained == Drained(q, limit.window, now, 0)
  IN  IF SpentWithin(q, limit.window, now) + units <= limit.budget \/ drained = {}
      THEN 0
      ELSE q[Min(drained)].at + limit.window - now

\* The wait one window asks for.  A request over the whole budget aims at an
\* empty window; any other aims at the room it needs.  The wait ends when the
\* first charge ages out that brings the rest down to the target.
WindowDelay(q, limit, units, now) ==
  LET target  == IF units < limit.budget THEN limit.budget - units ELSE 0
      drained == Drained(q, limit.window, now, target)
  IN  IF SpentWithin(q, limit.window, now) + units <= limit.budget \/ drained = {}
      THEN 0
      ELSE q[Min(drained)].at + limit.window - now

\* Fault: the shortest wait of the windows that ask for one.
ShortestDelay(q, units, now) ==
  LET waits == {WindowDelay(q, l, units, now) : l \in Limits} \ {0}
  IN  IF waits = {} THEN 0 ELSE Min(waits)

\* The longest wait any window asks for.
Delay(q, units, now) == Max({WindowDelay(q, l, units, now) : l \in Limits})

------------------------------------------------------------------------------
(* The protocol between the limiter and its one caller. *)

Init ==
  /\ clock = 0
  /\ spent = <<>>
  /\ granted = 0
  /\ history = <<>>

\* Fault: another request is let through before the last one is charged.
AcquireAgain(units) ==
  /\ Len(history) < MaxCharges
  /\ Delay(spent, units, clock) <= MaxWait
  /\ spent' = Trim(spent, clock)
  /\ clock' = clock + Delay(spent, units, clock)
  /\ granted' = granted + units
  /\ UNCHANGED history

\* acquire: at once when the units fit, else after one sleep of the longest wait.
Acquire(units) ==
  /\ granted = 0
  /\ Len(history) < MaxCharges
  /\ Delay(spent, units, clock) <= MaxWait
  /\ spent' = Trim(spent, clock)
  /\ clock' = clock + Delay(spent, units, clock)
  /\ granted' = units
  /\ UNCHANGED history

\* acquire raising WaitTooLong: nothing slept, nothing charged.
Refuse(units) ==
  /\ granted = 0
  /\ Delay(spent, units, clock) > MaxWait
  /\ spent' = Trim(spent, clock)
  /\ UNCHANGED <<clock, granted, history>>

\* The request the caller was let through for, and its charge once it is over.
Charge(latency) ==
  /\ granted # 0
  /\ clock' = clock + latency
  /\ LET charge == [at |-> clock + latency, units |-> granted]
     IN  /\ spent' = Append(Trim(spent, clock + latency), charge)
         /\ history' = Append(history, charge)
  /\ granted' = 0

\* The caller is busy elsewhere, backing off, for one stretch after a request.
Pause(seconds) ==
  /\ granted = 0
  /\ Len(history) \in 1 .. MaxCharges - 1
  /\ clock = Last(history).at
  /\ clock' = clock + seconds
  /\ UNCHANGED <<spent, granted, history>>

Next ==
  \/ \E units \in Costs : Acquire(units) \/ Refuse(units)
  \/ \E latency \in Latencies : Charge(latency)
  \/ \E seconds \in Pauses : Pause(seconds)

Spec == Init /\ [][Next]_vars

------------------------------------------------------------------------------
Charges == [at : Nat, units : Nat \ {0}]

\* Types of the limiter's state.
TypeOK ==
  /\ clock \in Nat
  /\ spent \in Seq(Charges)
  /\ granted \in Costs \cup {0}
  /\ history \in Seq(Charges)

\* "Enforce several budgets simultaneously": whenever a charge is made, every
\* window that ends there is within its budget, unless the charge is a request
\* larger than the budget that found the window empty.
BudgetOrLoneOversized ==
  \A i \in DOMAIN history, l \in Limits :
    LET upto == SubSeq(history, 1, i)
        sum  == SpentWithin(upto, l.window, history[i].at)
    IN  sum <= l.budget \/ sum = history[i].units

\* acquire sleeps once and does not look again: the longest single wait must
\* have made room in every window, not only in the one that asked for it.
OneSleepIsEnough ==
  granted # 0 =>
    \A l \in Limits :
      LET held == SpentWithin(history, l.window, clock)
      IN  held + granted <= l.budget \/ held = 0

\* _trim drops only what no window counts any more: at any time the deque
\* answers every window as the untrimmed history would.
TrimForgetsNothing ==
  \A l \in Limits :
    SpentWithin(spent, l.window, clock) = SpentWithin(history, l.window, clock)

\* Whether a request of this size could be sent at a given time: each window
\* has room for it or, for an oversized one, is empty.
Fits(units, at) ==
  \A l \in Limits :
    LET held == SpentWithin(history, l.window, at)
    IN  held + units <= l.budget \/ held = 0

\* The wait is not a guess: a sleep that ended a second earlier would have
\* spent against a window still too full.  With pauses of whole seconds this
\* says the caller is never held longer than the budgets require.
NoLongerThanNeeded ==
  [][granted = 0 /\ granted' # 0 /\ clock' > clock =>
       ~Fits(granted', clock' - 1)]_vars

\* WaitTooLong is raised only when no wait of MaxWait or less would have made
\* room: a request the limiter could have let through in time is never refused.
RefusedOnlyWhenHopeless ==
  granted = 0 =>
    \A units \in Costs :
      (Delay(spent, units, clock) > MaxWait) =>
        ~Fits(units, clock + MaxWait)

\* What the limiter counts is all that was charged, and no window holds more than its
\* budget but for one request larger than it (acquire, _trim, _window_delay).
NoWindowIsOverspent == TypeOK /\ TrimForgetsNothing /\ BudgetOrLoneOversized
==============================================================================
