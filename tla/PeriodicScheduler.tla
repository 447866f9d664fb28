------------------------- MODULE PeriodicScheduler --------------------------
(***************************************************************************)
(* ptp/l2master/scheduler.py: the deadlines of one periodic message class, *)
(* aligned to multiples of its interval.  Operators only; times are        *)
(* integers in ticks.  Intervals are whole numbers of ticks, and the half  *)
(* interval is compared after doubling both sides, so nothing is rounded.  *)
(***************************************************************************)
EXTENDS Integers

CONSTANT TicksPerSec   \* resolution of the clock

ASSUME ResolutionAssumption == TicksPerSec \in Nat \ {0}

\* 2 ** log_interval seconds.
IntervalTicks(log) ==
  IF log >= 0 THEN TicksPerSec * 2 ^ log ELSE TicksPerSec \div 2 ^ (-log)

\* Mutant of NextBoundary: the boundary at or before the instant.
LastBoundary(at, interval) == (at \div interval) * interval

\* First multiple of the interval strictly after the instant.
NextBoundary(at, interval) == (at \div interval + 1) * interval

Scheduler == [interval: Nat \ {0}, deadline: Int, skipped: Nat]

NewScheduler(interval, at) ==
  [interval |-> interval, deadline |-> NextBoundary(at, interval), skipped |-> 0]

Due(s, at) == at >= s.deadline

\* More than half an interval past the deadline.
Late(s, at) == 2 * (at - s.deadline) > s.interval

\* Mutants of Advance: an interval from now; two boundaries on.
AdvanceFromNow(s, at) == [s EXCEPT !.deadline = at + s.interval]

AdvanceTwice(s, at) == [s EXCEPT !.deadline = NextBoundary(at + s.interval, s.interval)]

Advance(s, at) ==
  IF Late(s, at)
  THEN [s EXCEPT !.skipped = @ + 1, !.deadline = NextBoundary(at, s.interval)]
  ELSE IF s.deadline + s.interval <= at
       THEN [s EXCEPT !.deadline = NextBoundary(at, s.interval)]
       ELSE [s EXCEPT !.deadline = @ + s.interval]

WaitTimeout(s, at) == IF s.deadline > at THEN s.deadline - at ELSE 0
=============================================================================
