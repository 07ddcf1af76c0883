----------------------------- MODULE ChatPresence -----------------------------
(***************************************************************************)
(* What the chat room promises its users, without connections, threads and *)
(* broadcasts: who is present has been told of everyone who is present.    *)
(*                                                                         *)
(* A user comes to the room at one moment, at which those who are present  *)
(* and the user know of one another, and is struck off by the others only  *)
(* after having left.  The one exception is a user whose announcement was  *)
(* cut short before.                                                       *)
(***************************************************************************)
CONSTANT Users

VARIABLES
    stage,  \* of each user: away, present or left
    knows,  \* the users that each user has been told of
    cut     \* the users whose announcement was cut short

vars == <<stage, knows, cut>>

Knows(u, v) == v \in knows[u] \union cut

Init ==
    /\ stage = [u \in Users |-> "away"]
    /\ knows = [u \in Users |-> {}]
    /\ cut = {}

Come(u) ==
    /\ stage[u] = "away"
    /\ Knows(u, u)
    /\ \A v \in Users : stage[v] = "present" => Knows(u, v) /\ Knows(v, u)
    /\ stage' = [stage EXCEPT ![u] = "present"]
    /\ UNCHANGED <<knows, cut>>

\* A user who has left does not return: a reconnection is another user.
Go(u) ==
    /\ stage[u] # "left"
    /\ stage' = [stage EXCEPT ![u] = "left"]
    /\ UNCHANGED <<knows, cut>>

Learn(u, v) ==
    /\ knows' = [knows EXCEPT ![u] = @ \union {v}]
    /\ UNCHANGED <<stage, cut>>

Forget(u, v) ==
    /\ stage[v] = "left"
    /\ knows' = [knows EXCEPT ![u] = @ \ {v}]
    /\ UNCHANGED <<stage, cut>>

\* It is never one who is present already.
CutShort ==
    /\ \E some \in SUBSET {u \in Users : stage[u] # "present"} : cut' = cut \union some
    /\ UNCHANGED <<stage, knows>>

Next ==
    \/ \E u \in Users : Come(u) \/ Go(u)
    \/ \E u, v \in Users : Learn(u, v) \/ Forget(u, v)
    \/ CutShort

Spec == Init /\ [][Next]_vars

-----------------------------------------------------------------------------
\* What the promise comes to: of any two users who are present each has been
\* told of the other, unless the announcement was cut short.
Acquainted ==
    \A u, v \in Users : stage[u] = "present" /\ stage[v] = "present" => Knows(u, v)
=============================================================================
