---------------------------- MODULE Promises_proofs ----------------------------
(***************************************************************************)
(* What the four abstract specifications come to, for any values of their  *)
(* constants: the properties that whoever implements them inherits.        *)
(***************************************************************************)
EXTENDS Naturals, TLAPS

CONSTANTS Users, Jobs, Forever, Reused, Messages, Workers, Roles, Saves

VARIABLES
    stage, knows, cut,                                        \* ChatPresence
    place, busy, ran, cancelled,                              \* JobStore
    arrived, unread, claims, handed,                          \* MailQueue
    shown, dealt, available, assigned, submitted, granted,
    careful                                                   \* RoleBoard

Presence == INSTANCE ChatPresence
Store == INSTANCE JobStore
Queue == INSTANCE MailQueue
Board == INSTANCE RoleBoard

-----------------------------------------------------------------------------
(* The users of the chat room *)

\* The types that the rest of the argument needs.
PresenceType ==
    /\ stage \in [Users -> {"away", "present", "left"}]
    /\ knows \in [Users -> SUBSET Users]

\* Coming makes the user acquainted with all, and nobody who is present is
\* struck off.
LEMMA PresenceStep ==
  ASSUME PresenceType, Presence!Acquainted, [Presence!Next]_Presence!vars
  PROVE  (PresenceType /\ Presence!Acquainted)'
<1> USE DEF PresenceType, Presence!Acquainted, Presence!Knows
<1>1. ASSUME NEW u \in Users, Presence!Come(u)
      PROVE  (PresenceType /\ Presence!Acquainted)'
  BY <1>1 DEF Presence!Come
<1>2. ASSUME NEW u \in Users, Presence!Go(u)
      PROVE  (PresenceType /\ Presence!Acquainted)'
  BY <1>2 DEF Presence!Go
<1>3. ASSUME NEW u \in Users, NEW v \in Users, Presence!Learn(u, v)
      PROVE  (PresenceType /\ Presence!Acquainted)'
  BY <1>3 DEF Presence!Learn
<1>4. ASSUME NEW u \in Users, NEW v \in Users, Presence!Forget(u, v)
      PROVE  (PresenceType /\ Presence!Acquainted)'
  BY <1>4 DEF Presence!Forget
<1>5. CASE Presence!CutShort
  BY <1>5 DEF Presence!CutShort
<1>6. CASE UNCHANGED Presence!vars
  BY <1>6 DEF Presence!vars
<1> QED
  BY <1>1, <1>2, <1>3, <1>4, <1>5, <1>6 DEF Presence!Next

\* The promise of processMessage and registerCloseConnection: of any two users
\* who are in the room each has been told of the other.
THEOREM AcquaintedHolds == Presence!Spec => []Presence!Acquainted
<1>1. Presence!Init => PresenceType /\ Presence!Acquainted
  BY DEF Presence!Init, PresenceType, Presence!Acquainted
<1>2. PresenceType /\ Presence!Acquainted /\ [Presence!Next]_Presence!vars
        => (PresenceType /\ Presence!Acquainted)'
  BY PresenceStep
<1> QED
  BY <1>1, <1>2, PTL DEF Presence!Spec

-----------------------------------------------------------------------------
(* The jobs of the scheduler *)

\* A job that repeats for ever is never spent, and if it is gone it has been
\* executed or asked for.
StoreInv ==
    /\ place \in [Jobs -> {"new", "stored", "spent", "gone"}]
    /\ \A j \in Jobs \intersect Forever :
          /\ place[j] # "spent"
          /\ place[j] = "gone" => j \in ran \union cancelled

\* Every step of the store preserves it.
LEMMA StoreStep ==
  ASSUME StoreInv, [Store!Next]_Store!vars
  PROVE  StoreInv'
<1> USE DEF StoreInv, Store!Moves
<1>1. ASSUME NEW j \in Jobs, Store!Admit(j)
      PROVE  StoreInv'
  BY <1>1 DEF Store!Admit
<1>2. ASSUME NEW j \in Jobs, Store!Begin(j)
      PROVE  StoreInv'
  BY <1>2 DEF Store!Begin
<1>3. ASSUME NEW j \in Jobs, Store!End(j)
      PROVE  StoreInv'
  BY <1>3 DEF Store!End
<1>4. ASSUME NEW j \in Jobs, Store!Renew(j)
      PROVE  StoreInv'
  BY <1>4 DEF Store!Renew
<1>5. ASSUME NEW j \in Jobs, Store!Cancel(j)
      PROVE  StoreInv'
  BY <1>5 DEF Store!Cancel
<1>6. ASSUME NEW j \in Jobs, Store!Leave(j)
      PROVE  StoreInv'
  BY <1>6 DEF Store!Leave
<1>7. CASE Store!Die
  BY <1>7 DEF Store!Die
<1>8. CASE UNCHANGED Store!vars
  BY <1>8 DEF Store!vars
<1> QED
  BY <1>1, <1>2, <1>3, <1>4, <1>5, <1>6, <1>7, <1>8 DEF Store!Next

\* The store's invariant holds in every reachable state.
LEMMA StoreCorrect == Store!Spec => []StoreInv
<1>1. Store!Init => StoreInv
  BY DEF Store!Init, StoreInv
<1> QED
  BY <1>1, StoreStep, PTL DEF Store!Spec

\* The promise of schedule and removeMe: a job that repeats for ever is kept,
\* through the death of the process, until it has been executed or someone has
\* asked for it.
THEOREM KeptHolds ==
  ASSUME Forever \subseteq Jobs
  PROVE  Store!Spec => []Store!Kept
<1>1. StoreInv => Store!Kept
  BY DEF StoreInv, Store!Kept
<1> QED
  BY <1>1, StoreCorrect, PTL

\* The promise of reschedulerJobsInStore: a job that was scheduled once and has
\* left the store never comes back to it.
THEOREM NoReturnHolds == Store!Spec => Store!NoReturn
<1>1. StoreInv /\ [Store!Next]_Store!vars =>
         [\A j \in Jobs \ Reused : place[j] = "gone" => place'[j] = "gone"]_Store!vars
  <2> SUFFICES ASSUME StoreInv, Store!Next,
                      NEW k \in Jobs \ Reused, place[k] = "gone"
               PROVE  place'[k] = "gone"
    BY DEF Store!vars
  <2> USE DEF StoreInv, Store!Moves, Store!Inside
  <2>1. ASSUME NEW j \in Jobs, Store!Admit(j) \/ Store!Begin(j) \/ Store!Renew(j)
        PROVE  place'[k] = "gone"
    BY <2>1 DEF Store!Admit, Store!Begin, Store!Renew
  <2>2. ASSUME NEW j \in Jobs, Store!End(j) \/ Store!Cancel(j) \/ Store!Leave(j)
        PROVE  place'[k] = "gone"
    BY <2>2 DEF Store!End, Store!Cancel, Store!Leave
  <2>3. CASE Store!Die
    BY <2>3 DEF Store!Die
  <2> QED
    BY <2>1, <2>2, <2>3 DEF Store!Next
<1> QED
  BY <1>1, StoreCorrect, PTL DEF Store!Spec, Store!NoReturn

-----------------------------------------------------------------------------
(* The messages of the inbox *)

\* What has been handed over has arrived and is read.
QueueInv ==
    /\ unread \subseteq arrived
    /\ claims \in [Workers -> SUBSET arrived]
    /\ handed \in [Messages -> Nat]
    /\ \A m \in Messages : handed[m] > 0 => m \in arrived \ unread

\* Every step of the queue preserves it.
LEMMA QueueStep ==
  ASSUME QueueInv, [Queue!Next]_Queue!vars
  PROVE  QueueInv'
<1> USE DEF QueueInv
<1>1. ASSUME NEW m \in Messages, Queue!Arrive(m) \/ Queue!Read(m)
      PROVE  QueueInv'
  BY <1>1 DEF Queue!Arrive, Queue!Read
<1>2. ASSUME NEW w \in Workers, Queue!Claim(w) \/ Queue!GiveUp(w)
      PROVE  QueueInv'
  BY <1>2 DEF Queue!Claim, Queue!GiveUp
<1>3. ASSUME NEW w \in Workers, NEW m \in Messages, Queue!Hand(w, m) \/ Queue!Forgo(w, m)
      PROVE  QueueInv'
  BY <1>3 DEF Queue!Hand, Queue!Forgo
<1>4. CASE Queue!Die \/ UNCHANGED Queue!vars
  BY <1>4 DEF Queue!Die, Queue!vars
<1> QED
  BY <1>1, <1>2, <1>3, <1>4 DEF Queue!Next

\* The promise of processMessages: a message that has been handed over is not
\* claimed again, by an execution that overlaps or by one after a crash.
THEOREM NotClaimedAgainHolds == Queue!Spec => Queue!NotClaimedAgain
<1>1. Queue!Init => QueueInv
  BY DEF Queue!Init, QueueInv
<1>2. QueueInv /\ [Queue!Next]_Queue!vars =>
         [\A w \in Workers, m \in Messages :
             handed[m] > 0 /\ m \notin claims[w] => m \notin claims'[w]]_Queue!vars
  BY DEF QueueInv, Queue!Next, Queue!Arrive, Queue!Read, Queue!Claim, Queue!GiveUp,
         Queue!Hand, Queue!Forgo, Queue!Die, Queue!vars
<1> QED
  BY <1>1, <1>2, QueueStep, PTL DEF Queue!Spec, Queue!NotClaimedAgain

-----------------------------------------------------------------------------
(* The roles on the two sides of the board *)

\* The roles of the group are roles, and the sides of a careful user's board
\* divide them.
BoardInv == granted \subseteq Roles /\ submitted \in [Saves -> SUBSET Roles] /\ Board!Partition

\* Every step of the board preserves it.
LEMMA BoardStep ==
  ASSUME BoardInv, [Board!Next]_Board!vars
  PROVE  BoardInv'
<1> USE DEF BoardInv, Board!Partition
<1>1. CASE Board!Show \/ Board!Leave
  BY <1>1 DEF Board!Show, Board!Leave
<1>2. CASE Board!Assign
  BY <1>2 DEF Board!Assign
<1>3. CASE Board!Unassign
  BY <1>3 DEF Board!Unassign
<1>4. CASE Board!Careless
  BY <1>4 DEF Board!Careless
<1>5. ASSUME NEW i \in Saves, Board!Submit(i)
      PROVE  BoardInv'
  BY <1>5 DEF Board!Submit
<1>6. ASSUME NEW i \in Saves, Board!Grant(i) \/ Board!Refuse(i)
      PROVE  BoardInv'
  BY <1>6 DEF Board!Grant, Board!Refuse
<1>7. CASE UNCHANGED Board!vars
  BY <1>7 DEF Board!vars
<1> QED
  BY <1>1, <1>2, <1>3, <1>4, <1>5, <1>6, <1>7 DEF Board!Next

\* The promise of the two lists of S0102.js: a careful user sees every role
\* that they have brought in one of them and only there.
THEOREM PartitionHolds == Board!Spec => []Board!Partition
<1>1. Board!Init => BoardInv
  BY DEF Board!Init, BoardInv, Board!Partition
<1>2. BoardInv => Board!Partition
  BY DEF BoardInv
<1> QED
  BY <1>1, <1>2, BoardStep, PTL DEF Board!Spec
=============================================================================
