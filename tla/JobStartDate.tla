----------------------------- MODULE JobStartDate -----------------------------
(***************************************************************************)
(* When a job starts: from the date given to BaseIntervalJob.setStartDate, *)
(* or the minutes given to setStartTime, to the start of the trigger that  *)
(* JobSchedulerImpl.schedule builds.                                       *)
(*                                                                         *)
(* The unit of time is the minute, counted from the first local midnight;  *)
(* a day of the server's time zone need not have 24 hours.  The delay is   *)
(* computed by the code in a 32-bit int of milliseconds: here in ticks of  *)
(* 32 ms (1875 to the minute) that wrap at 2^27, for TLC's integers have   *)
(* 32 bits too.                                                            *)
(***************************************************************************)
EXTENDS Integers

CONSTANTS
    Horizon,   \* bound of the model: the last day a date may fall on
    Midnight,  \* the minute each day begins, that after the last one included
    Clocks,    \* the minutes at which a job may be made
    Dates,     \* the minutes a date may name
    Minutes    \* the values given to setStartTime

Days == 0 .. Horizon

ASSUME StartDateAssumption ==
    /\ Horizon \in Nat
    /\ Midnight \in [0 .. Horizon + 1 -> Nat]
    /\ \A d, e \in 0 .. Horizon + 1 : d < e => Midnight[d] < Midnight[e]
    /\ Midnight[0] = 0
    /\ Clocks \subseteq {t \in Nat : t < Midnight[Horizon + 1]}
    /\ Dates \subseteq {t \in Nat : t < Midnight[Horizon + 1]}
    /\ Minutes \subseteq Int

VARIABLES
    clock,      \* the minute the job is made and scheduled at
    job,        \* new, dated, refused (setStartDate throws) or scheduled
    startDate,  \* history: the date that was given, -1 if none
    startTime,  \* BaseIntervalJob.startTime, the minutes before it starts
    startAt     \* the start of its trigger

vars == <<clock, job, startDate, startTime, startAt>>

TypeOK ==
    /\ clock \in Clocks
    /\ job \in {"new", "dated", "refused", "scheduled"}
    /\ startDate \in Dates \union {-1}
    /\ startTime \in Int
    /\ startAt \in Nat

-----------------------------------------------------------------------------
(* DateUtils *)

\* t falls on day d: the comparison by Calendar.DATE, and startOfDay.
OnDay(t, d) == Midnight[d] <= t /\ t < Midnight[d + 1]

MinutesPerDay == 24 * 60

\* Slip: the time left until the day begins is counted, not whole days.
DaysBetween_now(today, d) == (Midnight[d] - clock) \div MinutesPerDay

\* Slip: the day that is asked for is counted too.
DaysBetween_end(today, d) == (Midnight[d + 1] - Midnight[today]) \div MinutesPerDay

\* The days from the start of one day to the start of another, as if each had
\* 24 hours; the code divides what is not negative here.
DaysBetween(today, d) == (Midnight[d] - Midnight[today]) \div MinutesPerDay

DaysToMinutes(days) == days * MinutesPerDay

-----------------------------------------------------------------------------
(* The delay of schedule() *)

TicksPerMinute == 1875

Wrap(ticks) == ((ticks + 67108864) % 134217728) - 67108864

\* Slip: a job that starts in a minute starts now.
Delay_late(minutes) ==
    IF minutes > 1 THEN Wrap(minutes * TicksPerMinute) ELSE 0

Delay(minutes) ==
    IF minutes > 0 THEN Wrap(minutes * TicksPerMinute) ELSE 0

\* Slip: the minutes are added even if they are negative.
Due_blind(minutes) == clock + Wrap(minutes * TicksPerMinute) \div TicksPerMinute

Due(minutes) ==
    IF Delay(minutes) > 0 THEN clock + Delay(minutes) \div TicksPerMinute ELSE clock

-----------------------------------------------------------------------------
(* The operations *)

\* setStartDate(dt, startNowInSameDate) on a date that is not in the past.
SetStartDate(dt, startNowInSameDate) ==
    /\ job = "new"
    /\ startDate' = dt
    /\ \E today, d \in Days :
          /\ OnDay(clock, today)
          /\ OnDay(dt, d)
          /\ d >= today
          /\ \/ /\ DaysBetween(today, d) = 0
                /\ startTime' = IF startNowInSameDate THEN 1 ELSE dt - clock
             \/ /\ DaysBetween(today, d) # 0
                /\ startTime' = DaysToMinutes(DaysBetween(today, d))
    /\ job' = "dated"
    /\ UNCHANGED <<clock, startAt>>

\* setStartDate throws, and the job is not scheduled.
RefuseStartDate(dt) ==
    /\ job = "new"
    /\ startDate' = dt
    /\ \E today, d \in Days : OnDay(clock, today) /\ OnDay(dt, d) /\ d < today
    /\ job' = "refused"
    /\ UNCHANGED <<clock, startTime, startAt>>

SetStartTime(minutes) ==
    /\ job = "new"
    /\ startTime' = minutes
    /\ job' = "dated"
    /\ UNCHANGED <<clock, startDate, startAt>>

Schedule ==
    /\ job = "dated"
    /\ startAt' = Due(startTime)
    /\ job' = "scheduled"
    /\ UNCHANGED <<clock, startDate, startTime>>

Init ==
    /\ clock \in Clocks
    /\ job = "new"
    /\ startDate = -1
    /\ startTime = 0
    /\ startAt = 0

Next ==
    \/ \E dt \in Dates, startNowInSameDate \in BOOLEAN : SetStartDate(dt, startNowInSameDate)
    \/ \E dt \in Dates : RefuseStartDate(dt)
    \/ \E minutes \in Minutes : SetStartTime(minutes)
    \/ Schedule

Spec == Init /\ [][Next]_vars

-----------------------------------------------------------------------------
(* Properties *)

Dated == job = "scheduled" /\ startDate # -1

\* The days from one to the other have 24 hours on average.
WholeDays(today, d) == Midnight[d] - Midnight[today] = (d - today) * MinutesPerDay

Length(d) == Midnight[d + 1] - Midnight[d]

\* A job does not start before the day its start date falls on, unless the
\* clocks are changed between the day it is made and that one.
NotBeforeDate ==
    Dated => \A today, d \in Days :
       OnDay(clock, today) /\ OnDay(startDate, d) /\ WholeDays(today, d) =>
          startAt >= Midnight[d]

\* A job starts no later than the day its start date falls on, or one minute
\* after it when it is to start now, unless that day is shorter than the one
\* the job is made on.
NotAfterDate ==
    Dated => \A today, d \in Days :
       OnDay(clock, today) /\ OnDay(startDate, d) /\ Length(today) <= Length(d) =>
          startAt <= Midnight[d + 1]

\* What IntervalJob says of the start time: it is the number of minutes to
\* start the job, whether it was given or computed from a date.
MinutesKept ==
    job = "scheduled" => startAt = clock + (IF startTime > 0 THEN startTime ELSE 0)
=============================================================================
