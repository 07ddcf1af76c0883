---------------------------- MODULE MCJobStartDate ----------------------------
(* Small instances of JobStartDate for TLC. *)
EXTENDS JobStartDate

\* Every day has 24 hours.
EvenDays == [d \in 0 .. Horizon + 1 |-> 1440 * d]

\* The clocks are put forward by an hour on day 1, and back on day 5.
SummerDays ==
    [d \in 0 .. Horizon + 1 |-> 1440 * d - IF d \in 2 .. 5 THEN 60 ELSE 0]

\* The first and the last minutes of each day, its second hour and noon.
Sampled ==
    {t \in UNION {{Midnight[d] + m : m \in {0, 1, 59, 60, 720, 1379}}
                    \union {Midnight[d + 1] - m : m \in {1, 2, 60}} : d \in Days} :
        t < Midnight[Horizon + 1]}

\* Those of the first week, and of the first two days.
FirstWeek == {t \in Sampled : t < Midnight[7]}
FirstTwo == {t \in Sampled : t < Midnight[2]}

\* Negative, none, and up to the longest delay that 32 bits hold.
InRange == {-1440, -1, 0, 1, 2, 60, 35790, 35791}

OneMonth == {35791, 35792, 40000, 43200}
=============================================================================
