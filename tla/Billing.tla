------------------------------ MODULE Billing -------------------------------
(***************************************************************************)
(* Billing dates (nextReset and runDueResets in internal/engine).  The     *)
(* calendar is a parameter: months are numbered, First[m] is the day on    *)
(* which month m begins, Midnight[d] the instant at which day d begins in  *)
(* the server's zone, so days may have 23 or 25 hours.                     *)
(***************************************************************************)
EXTENDS Integers

CONSTANTS
    LastMonth,   \* bound: the calendar ends where this month begins
    LastDay,     \* bound: its last day
    First,       \* the first day of each month
    Midnight,    \* the first instant of each day
    Shortest     \* no month has fewer days; the last anchor day (28)

ASSUME CalendarAssumption ==
    /\ LastMonth \in Nat /\ LastDay \in Nat
    /\ Shortest \in Nat \ {0}
    /\ First \in [0..LastMonth -> 0..LastDay]
    /\ Midnight \in [0..LastDay -> Int]
    /\ \A m, n \in 0..LastMonth : m < n => First[m] + Shortest <= First[n]
    /\ \A d, e \in 0..LastDay : d < e => Midnight[d] < Midnight[e]

\* the instants whose next boundary the calendar still has
Instants == {t \in Midnight[First[0]]..Midnight[LastDay] :
                LastMonth > 0 /\ t < Midnight[First[LastMonth - 1]]}

\* time.Time.Date, as far as the month goes
InMonth(t, m) == Midnight[First[m]] <= t /\ t < Midnight[First[m + 1]]

MonthOf(t) == CHOOSE m \in 0..(LastMonth - 1) : InMonth(t, m)

\* time.Date: the first instant of a day of month m
DayOf(m, day) == Midnight[First[m] + day - 1]

BillingDay(anchorDay) == IF anchorDay \in 1..Shortest THEN anchorDay ELSE 1

\* mutant of nextReset: a boundary that is last itself counts as the next one
nextResetNotAfter(last, anchorDay) ==
    LET c == DayOf(MonthOf(last), BillingDay(anchorDay)) IN
    IF c >= last THEN c ELSE DayOf(MonthOf(last) + 1, BillingDay(anchorDay))

nextReset(last, anchorDay) ==
    LET c == DayOf(MonthOf(last), BillingDay(anchorDay)) IN
    IF c > last THEN c ELSE DayOf(MonthOf(last) + 1, BillingDay(anchorDay))

\* runDueResets: !now.Before(nextReset(last, anchor))
Due(now, last, anchorDay) == ~(now < nextReset(last, anchorDay))

\* The reference: the instants at which a month's billing day begins.
Boundaries(anchorDay) ==
    {DayOf(m, BillingDay(anchorDay)) : m \in 0..(LastMonth - 1)}

BoundaryIn(last, now, anchorDay) ==
    \E b \in Boundaries(anchorDay) : last < b /\ b <= now
=============================================================================
