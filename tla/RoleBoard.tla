------------------------------- MODULE RoleBoard -------------------------------
(***************************************************************************)
(* What the screen that grants roles to a group promises, without its      *)
(* requests, rows and selections: a board to which some of the roles are   *)
(* dealt, each on the side that it has in the group.  The user moves roles *)
(* from side to side and submits the assigned side; what is submitted may  *)
(* become what the group is granted, in place of all it had, the roles     *)
(* that were not dealt included.                                           *)
(*                                                                         *)
(* The promise is to a careful user, who waits until the board is shown    *)
(* and does not drag a role that is selected.  To any user it is promised  *)
(* that only what was submitted is granted, and never the empty set.       *)
(***************************************************************************)
CONSTANTS
    Roles,  \* the roles (modules) that can be granted
    Saves   \* the submissions, each with a name of its own

VARIABLES
    shown,      \* is the board shown?
    dealt,      \* the roles that it shows
    available,  \* those on the one side
    assigned,   \* and on the other
    submitted,  \* what each submission still asks for, {} if nothing
    granted,    \* the roles of the group
    careful     \* has the user been careful so far?

vars == <<shown, dealt, available, assigned, submitted, granted, careful>>

Init ==
    /\ shown = FALSE
    /\ dealt = {}
    /\ available = {}
    /\ assigned = {}
    /\ submitted = [i \in Saves |-> {}]
    /\ granted \in SUBSET Roles
    /\ careful = TRUE

Show ==
    /\ careful
    /\ ~shown
    /\ shown' = TRUE
    /\ dealt' \in SUBSET Roles
    /\ available' = dealt' \ granted
    /\ assigned' = dealt' \intersect granted
    /\ UNCHANGED <<submitted, granted, careful>>

Assign ==
    /\ careful
    /\ shown
    /\ \E moved \in SUBSET available :
          /\ available' = available \ moved
          /\ assigned' = assigned \union moved
    /\ UNCHANGED <<shown, dealt, submitted, granted, careful>>

Unassign ==
    /\ careful
    /\ shown
    /\ \E moved \in SUBSET assigned :
          /\ assigned' = assigned \ moved
          /\ available' = available \union moved
    /\ UNCHANGED <<shown, dealt, submitted, granted, careful>>

Leave ==
    /\ shown
    /\ shown' = FALSE
    /\ dealt' = {}
    /\ available' = {}
    /\ assigned' = {}
    /\ UNCHANGED <<submitted, granted, careful>>

\* A careful user submits the side that is shown.
Submit(i) ==
    /\ submitted[i] = {}
    /\ \E set \in (SUBSET Roles) \ {{}} :
          /\ careful => shown /\ set = assigned
          /\ submitted' = [submitted EXCEPT ![i] = set]
    /\ UNCHANGED <<shown, dealt, available, assigned, granted, careful>>

Grant(i) ==
    /\ submitted[i] # {}
    /\ granted' = submitted[i]
    /\ submitted' = [submitted EXCEPT ![i] = {}]
    /\ UNCHANGED <<shown, dealt, available, assigned, careful>>

Refuse(i) ==
    /\ submitted[i] # {}
    /\ submitted' = [submitted EXCEPT ![i] = {}]
    /\ UNCHANGED <<shown, dealt, available, assigned, granted, careful>>

\* From the first careless step on the board may show anything.
Careless ==
    /\ careful' = FALSE
    /\ shown' \in BOOLEAN
    /\ dealt' \in SUBSET Roles
    /\ available' \in SUBSET Roles
    /\ assigned' \in SUBSET Roles
    /\ UNCHANGED granted
    /\ \/ UNCHANGED submitted
       \/ \E i \in Saves, set \in (SUBSET Roles) \ {{}} :
             /\ submitted[i] = {}
             /\ submitted' = [submitted EXCEPT ![i] = set]

Next ==
    \/ Show \/ Leave \/ Assign \/ Unassign \/ Careless
    \/ \E i \in Saves : Submit(i) \/ Grant(i) \/ Refuse(i)

Spec == Init /\ [][Next]_vars

-----------------------------------------------------------------------------
\* What the promise comes to: a careful user sees every role that was dealt on
\* one side and only there.
Partition ==
    careful /\ shown =>
       /\ available \union assigned = dealt
       /\ available \intersect assigned = {}
=============================================================================
