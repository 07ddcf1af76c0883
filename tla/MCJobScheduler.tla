---------------------------- MODULE MCJobScheduler ----------------------------
(* Small instances of JobScheduler for TLC. *)
EXTENDS JobScheduler

CONSTANTS daily, twice

\* One job that repeats for ever, and one that is executed two times.
OneForever == [j \in {daily} |-> 0]
BothKinds == [j \in {daily, twice} |-> IF j = twice THEN 1 ELSE 0]
=============================================================================
