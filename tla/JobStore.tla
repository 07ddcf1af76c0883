------------------------------- MODULE JobStore -------------------------------
(***************************************************************************)
(* What the scheduler promises of each job it is given, without its calls  *)
(* of Quartz, triggers and threads: a store that jobs enter and leave in   *)
(* one step, and out of which they are executed.                           *)
(*                                                                         *)
(* A job leaves the store only after an execution of it has ended, or when *)
(* someone has asked for it, or, if its executions are counted, with a     *)
(* process that dies after the last one has begun.  It comes back only if  *)
(* its object is scheduled more than once.                                 *)
(***************************************************************************)
CONSTANTS
    Jobs,     \* the jobs
    Forever,  \* those that repeat for ever
    Reused    \* those that may be scheduled more than once

VARIABLES
    place,     \* of each job: new, stored, spent (no execution is left) or gone
    busy,      \* the jobs that are being executed
    ran,       \* those of which an execution has ended
    cancelled  \* those that someone has asked to stop

vars == <<place, busy, ran, cancelled>>

Inside(j) == place[j] \in {"stored", "spent"}
Moves(j, to) == place' = [place EXCEPT ![j] = to]

Init ==
    /\ place = [j \in Jobs |-> "new"]
    /\ busy = {}
    /\ ran = {}
    /\ cancelled = {}

Admit(j) ==
    /\ place[j] = "new" \/ (place[j] = "gone" /\ j \in Reused)
    /\ Moves(j, "stored")
    /\ UNCHANGED <<busy, ran, cancelled>>

\* An execution may begin while an earlier one goes on.
Begin(j) ==
    /\ place[j] = "stored"
    /\ \/ UNCHANGED place
       \/ j \notin Forever /\ Moves(j, "spent")
    /\ busy' = busy \union {j}
    /\ UNCHANGED <<ran, cancelled>>

End(j) ==
    /\ j \in busy
    /\ busy' \in {busy, busy \ {j}}
    /\ ran' = ran \union {j}
    /\ UNCHANGED <<place, cancelled>>

\* A job that is in the store may get its executions back.
Renew(j) ==
    /\ place[j] = "spent"
    /\ Moves(j, "stored")
    /\ UNCHANGED <<busy, ran, cancelled>>

Cancel(j) ==
    /\ Inside(j)
    /\ UNCHANGED place \/ Moves(j, "gone")
    /\ cancelled' = cancelled \union {j}
    /\ UNCHANGED <<busy, ran>>

Leave(j) ==
    /\ Inside(j)
    /\ j \in ran \union cancelled
    /\ Moves(j, "gone")
    /\ UNCHANGED <<busy, ran, cancelled>>

\* The process dies: what was being executed is not, and the rest is kept.
Die ==
    /\ busy' = {}
    /\ place' = [j \in Jobs |-> IF place[j] = "spent" THEN "gone" ELSE place[j]]
    /\ UNCHANGED <<ran, cancelled>>

Next ==
    \/ \E j \in Jobs : Admit(j) \/ Begin(j) \/ End(j) \/ Renew(j) \/ Cancel(j) \/ Leave(j)
    \/ Die

Spec == Init /\ [][Next]_vars

-----------------------------------------------------------------------------
\* What the promise comes to: a job that repeats for ever is in the store until
\* an execution of it has ended or someone has asked for it.
Kept ==
    \A j \in Forever : place[j] \in {"spent", "gone"} => j \in ran \union cancelled

\* And a job that is scheduled once does not come back.
NoReturn ==
    [][\A j \in Jobs \ Reused : place[j] = "gone" => place'[j] = "gone"]_vars
=============================================================================
