-------------------------- MODULE JobStartDate_proofs --------------------------
(***************************************************************************)
(* Proofs about JobStartDate: where the dates and the minutes given are    *)
(* within the 35791 minutes that 32 bits hold, a job starts after the      *)
(* minutes computed for it, and on the day it is to, as far as the changes *)
(* of the clocks allow, in any time zone.                                  *)
(***************************************************************************)
EXTENDS JobStartDate, TLAPS

\* No delay reaches 2^31 milliseconds.
Bounded ==
    /\ Midnight[Horizon + 1] <= 35791
    /\ \A minutes \in Minutes : minutes <= 35791

-----------------------------------------------------------------------------
(* The delay *)

\* Within the bound the 32-bit product does not wrap, and the delay is what
\* was asked for.
LEMMA DelayKept ==
  ASSUME NEW minutes \in Int, minutes <= 35791
  PROVE  /\ Delay(minutes) = IF minutes > 0 THEN minutes * 1875 ELSE 0
         /\ \A t \in Nat : clock = t =>
               Due(minutes) = t + (IF minutes > 0 THEN minutes ELSE 0)
<1>1. minutes > 0 => Wrap(minutes * 1875) = minutes * 1875
  BY DEF Wrap
<1>2. Delay(minutes) = IF minutes > 0 THEN minutes * 1875 ELSE 0
  BY <1>1 DEF Delay, TicksPerMinute
<1>3. minutes > 0 => (minutes * 1875) \div 1875 = minutes
  OBVIOUS
<1> QED
  BY <1>2, <1>3 DEF Due, TicksPerMinute

\* The trigger never starts before the moment it is scheduled.
LEMMA DueType ==
  ASSUME NEW minutes \in Int, clock \in Nat
  PROVE  Due(minutes) \in Nat
<1>1. Delay(minutes) \in Int
  BY DEF Delay, Wrap, TicksPerMinute
<1>2. Delay(minutes) > 0 => Delay(minutes) \div TicksPerMinute \in Nat
  BY <1>1 DEF TicksPerMinute
<1> QED
  BY <1>2 DEF Due

-----------------------------------------------------------------------------
(* Types *)

\* Every variable keeps its type, whatever the zone and the values given.
THEOREM TypeCorrect == Spec => []TypeOK
<1> USE StartDateAssumption
<1>1. Init => TypeOK
  BY DEF Init, TypeOK
<1>2. TypeOK /\ [Next]_vars => TypeOK'
  <2> SUFFICES ASSUME TypeOK, [Next]_vars
               PROVE  TypeOK'
    OBVIOUS
  <2>1. ASSUME NEW dt \in Dates, NEW now \in BOOLEAN, SetStartDate(dt, now)
        PROVE  TypeOK'
    <3>1. PICK today \in Days, d \in Days :
             \/ startTime' = IF now THEN 1 ELSE dt - clock
             \/ startTime' = DaysToMinutes(DaysBetween(today, d))
      BY <2>1 DEF SetStartDate
    <3>2. Midnight[today] \in Nat /\ Midnight[d] \in Nat
      BY DEF Days
    <3>3. DaysToMinutes(DaysBetween(today, d)) \in Int
      BY <3>2 DEF DaysToMinutes, DaysBetween, MinutesPerDay
    <3>4. dt - clock \in Int
      BY DEF TypeOK
    <3> QED
      BY <2>1, <3>1, <3>3, <3>4 DEF SetStartDate, TypeOK
  <2>2. ASSUME NEW dt \in Dates, RefuseStartDate(dt)
        PROVE  TypeOK'
    BY <2>2 DEF RefuseStartDate, TypeOK
  <2>3. ASSUME NEW minutes \in Minutes, SetStartTime(minutes)
        PROVE  TypeOK'
    BY <2>3 DEF SetStartTime, TypeOK
  <2>4. CASE Schedule
    <3>1. clock \in Nat /\ startTime \in Int
      BY DEF TypeOK
    <3> QED
      BY <2>4, <3>1, DueType DEF Schedule, TypeOK
  <2>5. CASE UNCHANGED vars
    BY <2>5 DEF vars, TypeOK
  <2> QED
    BY <2>1, <2>2, <2>3, <2>4, <2>5 DEF Next
<1> QED
  BY <1>1, <1>2, PTL DEF Spec

-----------------------------------------------------------------------------
(* The day of the start *)

\* A minute falls on one day.
LEMMA OneDay ==
  ASSUME NEW t \in Nat, NEW d \in Days, NEW e \in Days, OnDay(t, d), OnDay(t, e)
  PROVE  d = e
<1> USE StartDateAssumption DEF Days, OnDay
<1>1. ASSUME NEW a \in Days, NEW b \in Days, a < b, OnDay(t, a), OnDay(t, b)
      PROVE  FALSE
  <2>1. /\ a + 1 = b \/ Midnight[a + 1] < Midnight[b]
        /\ Midnight[a + 1] \in Nat /\ Midnight[b] \in Nat
    BY <1>1
  <2> QED
    BY SMTT(60), <1>1, <2>1
<1> QED
  BY <1>1

\* What is true of the minutes once they are set, and of the trigger: the
\* start is on the day that was asked for, or in one minute when that is today.
Starts(due) ==
    \A today, d \in Days : OnDay(clock, today) /\ OnDay(startDate, d) =>
       /\ WholeDays(today, d) => due >= Midnight[d]
       /\ Length(today) <= Length(d) => due <= Midnight[d + 1]

DateInv ==
    /\ job \in {"dated", "scheduled"} => startTime <= 35791
    /\ job = "new" => startDate = -1
    /\ job \in {"dated", "scheduled"} /\ startDate # -1 =>
          Starts(clock + (IF startTime > 0 THEN startTime ELSE 0))
    /\ MinutesKept

\* The whole days that a later date is away, in minutes.
LEMMA DaysAway ==
  ASSUME NEW today \in Days, NEW d \in Days, d >= today
  PROVE  /\ DaysToMinutes(DaysBetween(today, d)) \in Nat
         /\ DaysToMinutes(DaysBetween(today, d)) <= Midnight[d] - Midnight[today]
         /\ WholeDays(today, d) =>
               DaysToMinutes(DaysBetween(today, d)) = Midnight[d] - Midnight[today]
         /\ DaysBetween(today, d) = 0 /\ WholeDays(today, d) => d = today
         /\ Midnight[today] <= Midnight[d] /\ Midnight[today + 1] <= Midnight[d + 1]
<1> USE StartDateAssumption DEF Days
<1>1. /\ Midnight[d] \in Nat /\ Midnight[today] \in Nat
      /\ Midnight[d + 1] \in Nat /\ Midnight[today + 1] \in Nat
      /\ Midnight[today] <= Midnight[d]
      /\ Midnight[today + 1] <= Midnight[d + 1]
  <2>1. today = d \/ today < d
    OBVIOUS
  <2> QED
    BY <2>1
<1> DEFINE gap == Midnight[d] - Midnight[today]
<1>2. gap \in Nat
  BY <1>1
<1>3. /\ 1440 * (gap \div 1440) \in Nat
      /\ 1440 * (gap \div 1440) <= gap
  BY <1>2
<1>4. gap = (d - today) * 1440 => gap \div 1440 = d - today
  <2> HIDE DEF gap
  <2> QED
    OBVIOUS
<1>5. DaysBetween(today, d) = gap \div 1440
  BY DEF DaysBetween, MinutesPerDay
<1>6. DaysToMinutes(DaysBetween(today, d)) = 1440 * (gap \div 1440)
  BY <1>2, <1>5 DEF DaysToMinutes, MinutesPerDay
<1>7. WholeDays(today, d) <=> gap = (d - today) * 1440
  BY DEF WholeDays, MinutesPerDay
<1> HIDE DEF gap
<1>8. gap = (d - today) * 1440 => 1440 * (gap \div 1440) = gap /\ (gap \div 1440 = 0 => d = today)
  BY <1>4
<1> QED
  BY <1>1, <1>3, <1>5, <1>6, <1>7, <1>8 DEF gap

\* A date sets minutes that lead to its day.
LEMMA DateStep ==
  ASSUME Bounded, TypeOK, DateInv,
         NEW dt \in Dates, NEW now \in BOOLEAN, SetStartDate(dt, now)
  PROVE  DateInv'
<1> USE StartDateAssumption
<1>1. PICK today \in Days, d \in Days :
         /\ OnDay(clock, today)
         /\ OnDay(dt, d)
         /\ d >= today
         /\ \/ /\ DaysBetween(today, d) = 0
               /\ startTime' = IF now THEN 1 ELSE dt - clock
            \/ /\ DaysBetween(today, d) # 0
               /\ startTime' = DaysToMinutes(DaysBetween(today, d))
  BY DEF SetStartDate
<1> DEFINE away == DaysToMinutes(DaysBetween(today, d))
           due == clock + (IF startTime' > 0 THEN startTime' ELSE 0)
<1>2. /\ clock \in Nat /\ dt \in Nat
      /\ Midnight[today] \in Nat /\ Midnight[today + 1] \in Nat
      /\ Midnight[d] \in Nat /\ Midnight[d + 1] \in Nat
  BY DEF Days, TypeOK
<1>3. /\ Midnight[today] <= clock /\ clock < Midnight[today + 1]
      /\ Midnight[d] <= dt /\ dt < Midnight[d + 1]
  BY <1>1 DEF OnDay
<1>4. /\ away \in Nat /\ away <= Midnight[d] - Midnight[today]
      /\ WholeDays(today, d) => away = Midnight[d] - Midnight[today]
      /\ DaysBetween(today, d) = 0 /\ WholeDays(today, d) => d = today
      /\ Midnight[today] <= Midnight[d] /\ Midnight[today + 1] <= Midnight[d + 1]
  BY <1>1, DaysAway
<1>5. Midnight[d + 1] <= 35791
  <2>1. d + 1 = Horizon + 1 \/ Midnight[d + 1] < Midnight[Horizon + 1]
    BY DEF Days
  <2> QED
    BY <1>2, <2>1 DEF Bounded, Days
<1> HIDE DEF away
<1>6. \/ DaysBetween(today, d) = 0 /\ startTime' = IF now THEN 1 ELSE dt - clock
      \/ startTime' = away
  BY <1>1 DEF away
<1>7. startTime' \in Int /\ startTime' <= 35791
  <2>1. CASE startTime' = away
    BY SMTT(60), <1>2, <1>3, <1>4, <1>5, <2>1
  <2>2. CASE startTime' = 1
    BY <1>2, <1>3, <1>5, <2>2
  <2>3. CASE startTime' = dt - clock
    BY <1>2, <1>3, <1>5, <2>3
  <2> QED
    BY <1>6, <2>1, <2>2, <2>3
<1>8. /\ WholeDays(today, d) => due >= Midnight[d]
      /\ Length(today) <= Length(d) => due <= Midnight[d + 1]
  <2>1. CASE startTime' = away
    <3>1. due = clock + away
      BY <1>2, <1>4, <2>1
    <3> HIDE DEF due
    <3>2. WholeDays(today, d) => due >= Midnight[d]
      BY <1>2, <1>3, <1>4, <3>1
    <3>3. Length(today) <= Length(d) => due <= Midnight[d + 1]
      BY SMTT(60), <1>2, <1>3, <1>4, <3>1 DEF Length
    <3> QED
      BY <3>2, <3>3
  <2>2. CASE DaysBetween(today, d) = 0 /\ startTime' = 1
    BY <1>2, <1>3, <1>4, <2>2
  <2>3. CASE DaysBetween(today, d) = 0 /\ startTime' = dt - clock
    <3>1. due = IF dt > clock THEN dt ELSE clock
      BY <1>2, <2>3
    <3> HIDE DEF due
    <3> QED
      BY <1>2, <1>3, <1>4, <2>3, <3>1
  <2> QED
    BY <1>6, <2>1, <2>2, <2>3
<1>9. /\ job' = "dated" /\ startDate' = dt /\ clock' = clock
  BY DEF SetStartDate
<1>10. Starts(clock + (IF startTime > 0 THEN startTime ELSE 0))'
  <2> SUFFICES ASSUME NEW a \in Days, NEW b \in Days, OnDay(clock, a), OnDay(dt, b)
               PROVE  /\ WholeDays(a, b) => due >= Midnight[b]
                      /\ Length(a) <= Length(b) => due <= Midnight[b + 1]
    BY <1>9 DEF Starts, OnDay, WholeDays, Length
  <2>1. a = today /\ b = d
    BY <1>1, <1>2, OneDay
  <2> QED
    BY <1>8, <2>1
<1> QED
  BY <1>7, <1>9, <1>10 DEF DateInv, MinutesKept, Starts

\* A job starts on the day it is given and after the minutes it is given, if
\* the values are within bounds, as far as the changes of the clocks allow.
THEOREM StartCorrect ==
  ASSUME Bounded
  PROVE  Spec => [](NotBeforeDate /\ NotAfterDate /\ MinutesKept)
<1> USE StartDateAssumption
<1>1. Init => DateInv
  BY DEF Init, DateInv, MinutesKept
<1>2. TypeOK /\ DateInv /\ [Next]_vars => DateInv'
  <2> SUFFICES ASSUME TypeOK, DateInv, [Next]_vars
               PROVE  DateInv'
    OBVIOUS
  <2>1. ASSUME NEW dt \in Dates, NEW now \in BOOLEAN, SetStartDate(dt, now)
        PROVE  DateInv'
    BY <2>1, DateStep
  <2>2. ASSUME NEW dt \in Dates, RefuseStartDate(dt)
        PROVE  DateInv'
    BY <2>2 DEF RefuseStartDate, DateInv, MinutesKept
  <2>3. ASSUME NEW minutes \in Minutes, SetStartTime(minutes)
        PROVE  DateInv'
    BY <2>3 DEF SetStartTime, DateInv, MinutesKept, Bounded
  <2>4. CASE Schedule
    <3>1. startAt' = clock + (IF startTime > 0 THEN startTime ELSE 0)
      BY <2>4, DelayKept DEF Schedule, TypeOK, DateInv
    <3> QED
      BY <2>4, <3>1 DEF Schedule, DateInv, MinutesKept, Starts, OnDay
  <2>5. CASE UNCHANGED vars
    BY <2>5 DEF vars, DateInv, MinutesKept, Starts, OnDay
  <2> QED
    BY <2>1, <2>2, <2>3, <2>4, <2>5 DEF Next
<1>3. DateInv => NotBeforeDate /\ NotAfterDate /\ MinutesKept
  BY DEF DateInv, NotBeforeDate, NotAfterDate, MinutesKept, Dated, Starts
<1> QED
  BY <1>1, <1>2, <1>3, TypeCorrect, PTL DEF Spec

\* setStartDate, getStartAt: a job that was given a date does not start before
\* the day of that date, if the days until then have 24 hours on average.
THEOREM NotBeforeHolds == ASSUME Bounded PROVE Spec => []NotBeforeDate
BY StartCorrect, PTL

\* setStartDate, getStartAt: a job that was given a date starts no later than
\* the end of that day, if the day on which it is made is no longer.
THEOREM NotAfterHolds == ASSUME Bounded PROVE Spec => []NotAfterDate
BY StartCorrect, PTL

\* setStartTime, getStartAt: a job starts as many minutes after it is scheduled
\* as it was given, or as were computed from its date; at once if not positive.
THEOREM MinutesKeptHolds == ASSUME Bounded PROVE Spec => []MinutesKept
BY StartCorrect, PTL
=============================================================================
