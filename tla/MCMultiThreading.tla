-------------------------- MODULE MCMultiThreading --------------------------
(* Small groups of tasks for TLC. *)
EXTENDS MultiThreading

CONSTANTS t1, t2, t3

OwnNames == [t \in Threads |-> t]

\* t2 and t3 carry the same thread name.
SharedName == [t \in Threads |-> IF t = t3 THEN t2 ELSE t]

OneTask == <<t1>>
TwoTasks == <<t1, t2>>
=============================================================================
