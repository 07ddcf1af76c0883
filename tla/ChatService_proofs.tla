--------------------------- MODULE ChatService_proofs ---------------------------
(***************************************************************************)
(* Proofs about ChatService, for any set of sessions: the types of its     *)
(* state, that a connection whose close has been handled is forgotten,     *)
(* that everyone in the room has been told of everyone in the room, and    *)
(* that the handlers implement ChatPresence.                               *)
(***************************************************************************)
EXTENDS ChatService, TLAPS

-----------------------------------------------------------------------------
(* Types *)

\* The room is empty and no call is in progress at first.
LEMMA InitType == Init => TypeOK
  BY DEF Init, TypeOK, MsgState, ClsState, Idle, None

\* A new broadcast is a state of either kind of call.
LEMMA IteratorType ==
  ASSUME TypeOK
  PROVE  /\ \A k \in {"join", "say"} : Iterator(k) \in MsgState
         /\ Iterator("leave") \in ClsState
  BY DEF TypeOK, Iterator, MsgState, ClsState, Cast

\* A call stays a call when the set it iterates is modified.
LEMMA StaleType ==
  ASSUME TypeOK, NEW a \in Sessions
  PROVE  Stale(msg[a]) \in MsgState /\ Stale(cls[a]) \in ClsState
<1>1. msg[a] \in MsgState /\ cls[a] \in ClsState
  BY DEF TypeOK
<1>2. CASE Casting(msg[a])
  BY <1>1, <1>2 DEF Stale, MsgState, ClsState, Cast, Casting
<1>3. CASE ~Casting(msg[a])
  BY <1>1, <1>3 DEF Stale, MsgState, ClsState, Cast, Casting
<1>4. QED
  BY <1>2, <1>3

\* Every step preserves the types.
LEMMA TypeStep ==
  ASSUME TypeOK, [Next]_vars
  PROVE  TypeOK'
<1> USE DEF Idle, None, Done
<1>1. CASE UNCHANGED vars
  BY <1>1 DEF vars, TypeOK
<1>2. ASSUME NEW s \in Sessions, Arriving(s)
      PROVE  TypeOK'
  <2>1. CASE RegisterOpen(s)
    BY <2>1, StaleType DEF RegisterOpen, TypeOK
  <2>2. ASSUME NEW how \in {"broken", "closed"}, Break(s, how)
        PROVE  TypeOK'
    BY <2>2 DEF Break, TypeOK
  <2>3. CASE FirstMessage(s)
    BY <2>3 DEF FirstMessage, TypeOK, MsgState
  <2>4. CASE Say(s)
    BY <2>4, IteratorType DEF Say, TypeOK
  <2> QED
    BY <1>2, <2>1, <2>2, <2>3, <2>4 DEF Arriving
<1>3. ASSUME NEW s \in Sessions, Handling(s)
      PROVE  TypeOK'
  <2>1. CASE Greet(s)
    BY <2>1 DEF Greet, Told, TypeOK, MsgState, ClsState, Cast
  <2>2. CASE GreetEnd(s)
    BY <2>2 DEF GreetEnd, TypeOK, MsgState
  <2>3. CASE Put(s)
    BY <2>3 DEF Put, TypeOK, MsgState
  <2>4. CASE Announce(s)
    BY <2>4, IteratorType DEF Announce, TypeOK
  <2>5. CASE Broadcast(s)
    BY <2>5 DEF Broadcast, Visited, Casting, Told, TypeOK, MsgState, ClsState, Cast
  <2>6. CASE BroadcastEnd(s)
    BY <2>6 DEF BroadcastEnd, TypeOK, MsgState
  <2>7. CASE MessageFails(s)
    BY <2>7 DEF MessageFails, TypeOK, MsgState
  <2> QED
    BY <1>3, <2>1, <2>2, <2>3, <2>4, <2>5, <2>6, <2>7 DEF Handling
<1>4. ASSUME NEW s \in Sessions, Closing(s)
      PROVE  TypeOK'
  <2>1. CASE CloseBegin(s)
    BY <2>1 DEF CloseBegin, TypeOK, ClsState
  <2>2. CASE CloseUnlist(s)
    BY <2>2, StaleType DEF CloseUnlist, Cut, CanCut, Casting, TypeOK, MsgState, ClsState, Cast
  <2>3. CASE CloseUnname(s)
    BY <2>3 DEF CloseUnname, CloseReturns, TypeOK, ClsState
  <2>4. CASE CloseAnnounce(s)
    BY <2>4, IteratorType DEF CloseAnnounce, TypeOK
  <2>5. CASE CloseBroadcast(s)
    BY <2>5 DEF CloseBroadcast, Visited, Casting, Told, TypeOK, MsgState, ClsState, Cast
  <2>6. CASE CloseEnd(s)
    BY <2>6 DEF CloseEnd, CloseReturns, TypeOK, ClsState
  <2> QED
    BY <1>4, <2>1, <2>2, <2>3, <2>4, <2>5, <2>6 DEF Closing
<1> QED
  BY <1>1, <1>2, <1>3, <1>4 DEF Next

-----------------------------------------------------------------------------
(* The room *)

\* Every step preserves what is known of a connection by the stage it is in.
LEMMA LifecycleStep ==
  ASSUME TypeOK, Lifecycle, [Next]_vars
  PROVE  Lifecycle'
<1> USE DEF Idle, None, Done
<1>1. CASE UNCHANGED vars
  BY <1>1 DEF vars, Lifecycle
<1>2. ASSUME NEW s \in Sessions, Arriving(s)
      PROVE  Lifecycle'
  <2>1. CASE RegisterOpen(s)
    BY <2>1 DEF RegisterOpen, Stale, Casting, TypeOK, Lifecycle, ClsState, MsgState, Cast
  <2>2. ASSUME NEW how \in {"broken", "closed"}, Break(s, how)
        PROVE  Lifecycle'
    BY <2>2 DEF Break, TypeOK, Lifecycle
  <2>3. CASE FirstMessage(s)
    BY <2>3 DEF FirstMessage, TypeOK, Lifecycle
  <2>4. CASE Say(s)
    BY <2>4 DEF Say, TypeOK, Lifecycle
  <2> QED
    BY <1>2, <2>1, <2>2, <2>3, <2>4 DEF Arriving
<1>3. ASSUME NEW s \in Sessions, Handling(s)
      PROVE  Lifecycle'
  <2>1. CASE Greet(s)
    BY <2>1 DEF Greet, TypeOK, Lifecycle
  <2>2. CASE GreetEnd(s)
    BY <2>2 DEF GreetEnd, TypeOK, Lifecycle
  <2>3. CASE Put(s)
    BY <2>3 DEF Put, TypeOK, Lifecycle
  <2>4. CASE Announce(s)
    BY <2>4 DEF Announce, TypeOK, Lifecycle
  <2>5. CASE Broadcast(s)
    BY <2>5 DEF Broadcast, Casting, TypeOK, Lifecycle
  <2>6. CASE BroadcastEnd(s)
    BY <2>6 DEF BroadcastEnd, TypeOK, Lifecycle
  <2>7. CASE MessageFails(s)
    BY <2>7 DEF MessageFails, CastFails, Casting, TypeOK, Lifecycle
  <2> QED
    BY <1>3, <2>1, <2>2, <2>3, <2>4, <2>5, <2>6, <2>7 DEF Handling
<1>4. ASSUME NEW s \in Sessions, Closing(s)
      PROVE  Lifecycle'
  <2>1. CASE CloseBegin(s)
    BY <2>1 DEF CloseBegin, TypeOK, Lifecycle
  <2>2. CASE CloseUnlist(s)
    BY <2>2 DEF CloseUnlist, Stale, Cut, CanCut, Casting, TypeOK, Lifecycle, ClsState, MsgState, Cast
  <2>3. CASE CloseUnname(s)
    BY <2>3 DEF CloseUnname, CloseReturns, TypeOK, Lifecycle
  <2>4. CASE CloseAnnounce(s)
    BY <2>4 DEF CloseAnnounce, Iterator, TypeOK, Lifecycle
  <2>5. CASE CloseBroadcast(s)
    BY <2>5 DEF CloseBroadcast, Visited, TypeOK, Lifecycle
  <2>6. CASE CloseEnd(s)
    BY <2>6 DEF CloseEnd, CloseReturns, TypeOK, Lifecycle
  <2> QED
    BY <1>4, <2>1, <2>2, <2>3, <2>4, <2>5, <2>6 DEF Closing
<1> QED
  BY <1>1, <1>2, <1>3, <1>4 DEF Next

\* What RoomInv says of one pair, so that a step is examined pair by pair.
Pair(s, t) ==
    sock[s] = "open" /\ sock[t] = "open" /\ t \in nicks /\ t \notin torn => Learns(s, t)

\* Every step leaves each pair of users a way to learn of each other.
LEMMA RoomStep ==
  ASSUME TypeOK, Lifecycle, RoomInv, [Next]_vars
  PROVE  RoomInv'
<1> SUFFICES ASSUME NEW x \in Sessions, NEW y \in Sessions
             PROVE  Pair(x, y)'
  BY DEF RoomInv, Pair
<1> USE DEF Idle, None, Done
<1>0. Pair(x, y)
  BY DEF RoomInv, Pair
<1>1. CASE UNCHANGED vars
  BY <1>0, <1>1 DEF vars, Pair, Learns
<1>2. ASSUME NEW s \in Sessions, Arriving(s)
      PROVE  Pair(x, y)'
  <2>1. CASE RegisterOpen(s)
    BY <1>0, <2>1 DEF RegisterOpen, Stale, Casting, TypeOK, Lifecycle, MsgState, Cast, Pair, Learns
  <2>2. ASSUME NEW how \in {"broken", "closed"}, Break(s, how)
        PROVE  Pair(x, y)'
    BY <1>0, <2>2 DEF Break, TypeOK, Pair, Learns
  <2>3. CASE FirstMessage(s)
    BY <1>0, <2>3 DEF FirstMessage, TypeOK, MsgState, Pair, Learns
  <2>4. CASE Say(s)
    BY <1>0, <2>4 DEF Say, Iterator, TypeOK, MsgState, Pair, Learns
  <2> QED
    BY <1>2, <2>1, <2>2, <2>3, <2>4 DEF Arriving
<1>3. ASSUME NEW s \in Sessions, Handling(s)
      PROVE  Pair(x, y)'
  <2>1. CASE Greet(s)
    BY <1>0, <2>1 DEF Greet, Told, TypeOK, MsgState, Cast, Pair, Learns
  <2>2. CASE GreetEnd(s)
    BY <1>0, <2>2 DEF GreetEnd, TypeOK, MsgState, Cast, Pair, Learns
  <2>3. CASE Put(s)
    BY <1>0, <2>3 DEF Put, TypeOK, MsgState, Cast, Pair, Learns
  <2>4. CASE Announce(s)
    BY <1>0, <2>4 DEF Announce, Iterator, TypeOK, Lifecycle, MsgState, Cast, Pair, Learns
  <2>5. CASE Broadcast(s)
    BY <1>0, <2>5 DEF Broadcast, Visited, Casting, Told, TypeOK, MsgState, Cast, Pair, Learns
  <2>6. CASE BroadcastEnd(s)
    BY <1>0, <2>6 DEF BroadcastEnd, Casting, TypeOK, MsgState, Cast, Pair, Learns
  <2>7. CASE MessageFails(s)
    BY <1>0, <2>7 DEF MessageFails, TypeOK, Pair, Learns
  <2> QED
    BY <1>3, <2>1, <2>2, <2>3, <2>4, <2>5, <2>6, <2>7 DEF Handling
<1>4. ASSUME NEW s \in Sessions, Closing(s)
      PROVE  Pair(x, y)'
  <2>1. CASE CloseBegin(s)
    BY <1>0, <2>1 DEF CloseBegin, TypeOK, Pair, Learns
  <2>2. CASE CloseUnlist(s)
    BY <1>0, <2>2 DEF CloseUnlist, Stale, Cut, CanCut, Casting, TypeOK, MsgState, Cast, Pair, Learns
  <2>3. CASE CloseUnname(s)
    BY <1>0, <2>3 DEF CloseUnname, CloseReturns, Lifecycle, TypeOK, Pair, Learns
  <2>4. CASE CloseAnnounce(s)
    BY <1>0, <2>4 DEF CloseAnnounce, TypeOK, Pair, Learns
  <2>5. CASE CloseBroadcast(s)
    BY <1>0, <2>5 DEF CloseBroadcast, Told, Lifecycle, TypeOK, Pair, Learns
  <2>6. CASE CloseEnd(s)
    BY <1>0, <2>6 DEF CloseEnd, CloseReturns, TypeOK, Pair, Learns
  <2> QED
    BY <1>4, <2>1, <2>2, <2>3, <2>4, <2>5, <2>6 DEF Closing
<1> QED
  BY <1>1, <1>2, <1>3, <1>4 DEF Next

\* Every variable of the model keeps its type, for any set of sessions.
THEOREM TypeCorrect == Spec => []TypeOK
<1>1. TypeOK /\ [Next]_vars => TypeOK'
  BY TypeStep
<1> QED
  BY InitType, <1>1, PTL DEF Spec

\* The strengthening holds in every reachable state.
THEOREM RoomCorrect == Spec => [](TypeOK /\ Lifecycle /\ RoomInv)
<1>1. Init => TypeOK /\ Lifecycle /\ RoomInv
  BY InitType DEF Init, Lifecycle, RoomInv, Idle, None
<1>2. TypeOK /\ Lifecycle /\ RoomInv /\ [Next]_vars => (TypeOK /\ Lifecycle /\ RoomInv)'
  BY TypeStep, LifecycleStep, RoomStep
<1> QED
  BY <1>1, <1>2, PTL DEF Spec

\* The life cycle of a connection, from afterConnectionEstablished to the end
\* of registerCloseConnection: what is open is registered, a close is handled
\* only for what is broken or closed, and undoes the registration first.
THEOREM LifecycleHolds == Spec => []Lifecycle
BY RoomCorrect, PTL

\* For each pair of users, a way by which the one still comes to know of the
\* other: processMessage greets, puts and announces in an order that leaves no
\* gap, however the handlers of two joins are interleaved.
THEOREM RoomInvHolds == Spec => []RoomInv
BY RoomCorrect, PTL

\* processMessage: whoever is in the room has been told of everyone in the
\* room, for any number of users joining, leaving and failing at once.
THEOREM RoomSeenHolds == Spec => []RoomSeen
<1>1. TypeOK /\ RoomInv => RoomSeen
  BY DEF TypeOK, RoomInv, RoomSeen, InRoom, Learns, Idle
<1> QED
  BY <1>1, RoomCorrect, PTL

\* registerCloseConnection: a connection whose close has been handled stays
\* out of conns.
THEOREM ClosedUnlistedHolds == Spec => []ClosedUnlisted
<1>1. Lifecycle => ClosedUnlisted
  BY DEF Lifecycle, ClosedUnlisted, Done
<1> QED
  BY <1>1, RoomCorrect, PTL

-----------------------------------------------------------------------------
(* A container that serialises the calls of a connection *)

\* While a close is handled no message is, and the nickname is not put back.
Unnamed ==
    \A s \in Sessions \ Overlapping :
       /\ cls[s] # None => msg[s] = Idle
       /\ cls[s].op \in {"farewell", "leave", "done"} => s \notin nicks

\* Every step preserves Unnamed: these closes wait for the handler.
LEMMA UnnamedStep ==
  ASSUME TypeOK, Lifecycle, Unnamed, [Next]_vars
  PROVE  Unnamed'
<1> USE DEF Idle, None, Done
<1>1. CASE UNCHANGED vars
  BY <1>1 DEF vars, Unnamed
<1>2. ASSUME NEW s \in Sessions, Arriving(s)
      PROVE  Unnamed'
  <2>1. CASE RegisterOpen(s)
    BY <2>1 DEF RegisterOpen, Stale, Casting, TypeOK, Unnamed, ClsState, MsgState, Cast
  <2>2. ASSUME NEW how \in {"broken", "closed"}, Break(s, how)
        PROVE  Unnamed'
    BY <2>2 DEF Break, TypeOK, Unnamed
  <2>3. CASE FirstMessage(s)
    BY <2>3 DEF FirstMessage, TypeOK, Lifecycle, Unnamed
  <2>4. CASE Say(s)
    BY <2>4 DEF Say, TypeOK, Lifecycle, Unnamed
  <2> QED
    BY <1>2, <2>1, <2>2, <2>3, <2>4 DEF Arriving
<1>3. ASSUME NEW s \in Sessions, Handling(s)
      PROVE  Unnamed'
  <2>1. CASE Greet(s)
    BY <2>1 DEF Greet, TypeOK, Unnamed
  <2>2. CASE GreetEnd(s)
    BY <2>2 DEF GreetEnd, TypeOK, Unnamed
  <2>3. CASE Put(s)
    BY <2>3 DEF Put, TypeOK, Unnamed, ClsState, Cast
  <2>4. CASE Announce(s)
    BY <2>4 DEF Announce, TypeOK, Unnamed
  <2>5. CASE Broadcast(s)
    BY <2>5 DEF Broadcast, Casting, TypeOK, Unnamed
  <2>6. CASE BroadcastEnd(s)
    BY <2>6 DEF BroadcastEnd, TypeOK, Unnamed
  <2>7. CASE MessageFails(s)
    BY <2>7 DEF MessageFails, TypeOK, Unnamed
  <2> QED
    BY <1>3, <2>1, <2>2, <2>3, <2>4, <2>5, <2>6, <2>7 DEF Handling
<1>4. ASSUME NEW s \in Sessions, Closing(s)
      PROVE  Unnamed'
  <2>1. CASE CloseBegin(s)
    BY <2>1 DEF CloseBegin, TypeOK, Unnamed
  <2>2. CASE CloseUnlist(s)
    BY <2>2 DEF CloseUnlist, Stale, Cut, CanCut, Casting, TypeOK, Unnamed, ClsState, MsgState, Cast
  <2>3. CASE CloseUnname(s)
    BY <2>3 DEF CloseUnname, CloseReturns, TypeOK, Unnamed
  <2>4. CASE CloseAnnounce(s)
    BY <2>4 DEF CloseAnnounce, Iterator, TypeOK, Unnamed
  <2>5. CASE CloseBroadcast(s)
    BY <2>5 DEF CloseBroadcast, Visited, TypeOK, Unnamed
  <2>6. CASE CloseEnd(s)
    BY <2>6 DEF CloseEnd, CloseReturns, TypeOK, Unnamed
  <2> QED
    BY <1>4, <2>1, <2>2, <2>3, <2>4, <2>5, <2>6 DEF Closing
<1> QED
  BY <1>1, <1>2, <1>3, <1>4 DEF Next

\* registerCloseConnection: the nickname of a connection whose close has been
\* handled is free again, if the container did not report the close while it
\* was still handling a message of the connection.
THEOREM ClosedUnnamedHolds == Spec => []ClosedUnnamed
<1>1. Init => Unnamed
  BY DEF Init, Unnamed, Idle, None
<1>2. TypeOK /\ Lifecycle /\ Unnamed /\ [Next]_vars => Unnamed'
  BY UnnamedStep
<1>3. Unnamed => ClosedUnnamed
  BY DEF Unnamed, ClosedUnnamed, Done
<1> QED
  BY <1>1, <1>2, <1>3, RoomCorrect, PTL DEF Spec

-----------------------------------------------------------------------------
(* The room keeps the promise of ChatPresence *)

\* Where each user stands is read off the connection, the nicknames and what
\* the handler of the user is doing.
LEMMA StageFrame ==
  ASSUME \A a \in Sessions :
            /\ sock'[a] \in {"broken", "closed"} <=> sock[a] \in {"broken", "closed"}
            /\ Settled(a)' <=> Settled(a)
  PROVE  Stage' = Stage
BY DEF Stage

\* A step that moves no user and tells no client anything is none of the room.
LEMMA PresenceStutter ==
  ASSUME Stage' = Stage, UNCHANGED <<seen, torn>>
  PROVE  [Presence!Next]_Presence!vars
BY DEF Presence!vars

\* A client that is told of a user learns of it, if it is still there.
LEMMA PresenceLearns ==
  ASSUME NEW t \in Sessions, NEW s \in Sessions,
         Stage' = Stage, seen' = Told(t, seen[t] \union {s}), UNCHANGED torn
  PROVE  [Presence!Next]_Presence!vars
<1>1. CASE sock[t] = "open"
  <2>1. Presence!Learn(t, s)
    BY <1>1 DEF Presence!Learn, Told
  <2> QED
    BY <2>1 DEF Presence!Next
<1>2. CASE sock[t] # "open"
  BY <1>2, PresenceStutter DEF Told
<1> QED
  BY <1>1, <1>2

\* A connection that ends takes its user out of the room, whatever its handler
\* was doing.
LEMMA PresenceGoes ==
  ASSUME TypeOK, NEW s \in Sessions, NEW how \in {"broken", "closed"},
         sock[s] = "open",
         sock' = [sock EXCEPT ![s] = how],
         \A a \in Sessions \ {s} : msg'[a] = msg[a],
         UNCHANGED <<nicks, seen, torn>>
  PROVE  Presence!Next
<1>1. \A a \in Sessions : Stage'[a] = IF a = s THEN "left" ELSE Stage[a]
  BY DEF Stage, Settled, TypeOK
<1>2. /\ Stage = [a \in Sessions |-> Stage[a]]
      /\ Stage' = [a \in Sessions |-> Stage'[a]]
  BY DEF Stage
<1>3. Stage' = [Stage EXCEPT ![s] = "left"]
  BY <1>1, <1>2
<1>4. Stage[s] # "left"
  BY DEF Stage
<1>5. Presence!Go(s)
  BY <1>3, <1>4 DEF Presence!Go
<1> QED
  BY <1>5 DEF Presence!Next

\* processMessage: whose announcement has reached everyone has come to the
\* room.  Those who are there have been told, and have greeted before.
LEMMA PresenceComes ==
  ASSUME TypeOK, RoomInv, NEW s \in Sessions, BroadcastEnd(s),
         msg[s].op = "join", s \in nicks, sock[s] = "open"
  PROVE  Presence!Next
<1> USE DEF Idle
<1>1. \A a \in Sessions : Stage'[a] = IF a = s THEN "present" ELSE Stage[a]
  BY DEF BroadcastEnd, Stage, Settled, TypeOK
<1>2. /\ Stage = [a \in Sessions |-> Stage[a]]
      /\ Stage' = [a \in Sessions |-> Stage'[a]]
  BY DEF Stage
<1>3. Stage' = [Stage EXCEPT ![s] = "present"]
  BY <1>1, <1>2
<1>4. Stage[s] = "away"
  BY DEF Stage, Settled
<1>5. \A v \in Sessions : Stage[v] = "present" => Settled(v)
  BY DEF Stage
<1>6. Presence!Knows(s, s)
  BY DEF RoomInv, Learns, BroadcastEnd, Presence!Knows
<1>7. ASSUME NEW v \in Sessions, Settled(v)
      PROVE  Presence!Knows(s, v) /\ Presence!Knows(v, s)
  <2>1. v \notin torn => Learns(s, v)
    BY <1>7 DEF RoomInv, Settled
  <2>2. s \notin torn => Learns(v, s)
    BY <1>7 DEF RoomInv, Settled
  <2> QED
    BY <1>7, <2>1, <2>2 DEF Learns, Settled, BroadcastEnd, Presence!Knows
<1>8. Presence!Come(s)
  BY <1>3, <1>4, <1>5, <1>6, <1>7 DEF Presence!Come, BroadcastEnd
<1> QED
  BY <1>8 DEF Presence!Next

\* What arrives moves a user only when the connection ends.
LEMMA PresenceArriving ==
  ASSUME TypeOK, Lifecycle, NEW s \in Sessions, Arriving(s)
  PROVE  [Presence!Next]_Presence!vars
<1> USE DEF Idle
<1>1. CASE RegisterOpen(s)
  <2>1. \A a \in Sessions : msg'[a].op = msg[a].op
    BY <1>1 DEF RegisterOpen, Stale
  <2>2. Stage' = Stage
    BY <1>1, <2>1, StageFrame DEF RegisterOpen, Settled, TypeOK, Lifecycle
  <2> QED
    BY <1>1, <2>2, PresenceStutter DEF RegisterOpen
<1>2. ASSUME NEW how \in {"broken", "closed"}, Break(s, how)
      PROVE  Presence!Next
  BY <1>2, PresenceGoes DEF Break
<1>3. CASE FirstMessage(s)
  <2>1. Stage' = Stage
    BY <1>3, StageFrame DEF FirstMessage, Settled, TypeOK
  <2> QED
    BY <1>3, <2>1, PresenceStutter DEF FirstMessage
<1>4. CASE Say(s)
  <2>1. Stage' = Stage
    BY <1>4, StageFrame DEF Say, Iterator, Settled, TypeOK
  <2> QED
    BY <1>4, <2>1, PresenceStutter DEF Say
<1> QED
  BY <1>1, <1>2, <1>3, <1>4 DEF Arriving

\* The handler of a message greets, announces, and ends.
LEMMA PresenceHandling ==
  ASSUME TypeOK, Lifecycle, RoomInv, NEW s \in Sessions, Handling(s)
  PROVE  [Presence!Next]_Presence!vars
<1> USE DEF Idle
<1>1. CASE Greet(s)
  <2>1. PICK t \in msg[s].todo \union nicks : seen' = Told(s, seen[s] \union {t})
    BY <1>1 DEF Greet
  <2>2. t \in Sessions
    BY <1>1, <2>1 DEF Greet, TypeOK, MsgState, Cast
  <2>3. Stage' = Stage
    BY <1>1, StageFrame DEF Greet, Settled, TypeOK
  <2> QED
    BY <1>1, <2>1, <2>2, <2>3, PresenceLearns DEF Greet
<1>2. CASE GreetEnd(s) \/ Announce(s)
  <2>1. Stage' = Stage
    BY <1>2, StageFrame DEF GreetEnd, Announce, Iterator, Settled, TypeOK
  <2> QED
    BY <1>2, <2>1, PresenceStutter DEF GreetEnd, Announce
<1>3. CASE Put(s)
  <2>1. Stage' = Stage
    BY <1>3, StageFrame DEF Put, Settled, TypeOK
  <2> QED
    BY <1>3, <2>1, PresenceStutter DEF Put
<1>4. CASE Broadcast(s)
  <2>1. PICK t \in msg[s].todo :
           /\ seen' = IF msg[s].op = "join" THEN Told(t, seen[t] \union {s}) ELSE seen
           /\ msg' = [msg EXCEPT ![s] = Visited(msg[s], t)]
    BY <1>4 DEF Broadcast
  <2>2. t \in Sessions
    BY <1>4, <2>1 DEF Broadcast, Casting, TypeOK, MsgState, Cast
  <2>3. Stage' = Stage
    BY <1>4, <2>1, StageFrame DEF Broadcast, Visited, Settled, TypeOK
  <2>4. UNCHANGED torn
    BY <1>4 DEF Broadcast
  <2> QED
    BY <2>1, <2>2, <2>3, <2>4, PresenceLearns, PresenceStutter
<1>5. CASE BroadcastEnd(s)
  <2>1. CASE msg[s].op = "join" /\ s \in nicks /\ sock[s] = "open"
    BY <1>5, <2>1, PresenceComes
  <2>2. CASE ~(msg[s].op = "join" /\ s \in nicks /\ sock[s] = "open")
    <3>1. msg[s].op \in {"join", "say"}
      BY <1>5 DEF BroadcastEnd, Casting, TypeOK, MsgState, Cast
    <3>2. Stage' = Stage
      BY <1>5, <2>2, <3>1, StageFrame DEF BroadcastEnd, Settled, TypeOK
    <3> QED
      BY <1>5, <3>2, PresenceStutter DEF BroadcastEnd
  <2> QED
    BY <2>1, <2>2
<1>6. CASE MessageFails(s)
  <2>1. msg[s].op # "idle" /\ sock[s] # "new"
    BY <1>6 DEF MessageFails, CastFails, Casting, Lifecycle
  <2>2. CASE sock[s] = "open"
    BY <1>6, <2>2, PresenceGoes DEF MessageFails, TypeOK
  <2>3. CASE sock[s] # "open"
    <3>1. Stage' = Stage
      BY <1>6, <2>3, <2>1, StageFrame DEF MessageFails, Settled, TypeOK
    <3> QED
      BY <1>6, <3>1, PresenceStutter DEF MessageFails
  <2> QED
    BY <2>2, <2>3
<1> QED
  BY <1>1, <1>2, <1>3, <1>4, <1>5, <1>6 DEF Handling

\* A close is that of a user who has left: only then is the user struck off,
\* and the only announcements it cuts are of users who have not come yet.
LEMMA PresenceClosing ==
  ASSUME TypeOK, Lifecycle, NEW s \in Sessions, Closing(s)
  PROVE  [Presence!Next]_Presence!vars
<1> USE DEF Idle, None, Done
<1>1. cls[s] # None => Stage[s] = "left"
  BY DEF Lifecycle, Stage
<1>2. CASE CloseBegin(s) \/ CloseAnnounce(s)
  <2>1. Stage' = Stage
    BY <1>2, StageFrame DEF CloseBegin, CloseAnnounce, Settled
  <2> QED
    BY <1>2, <2>1, PresenceStutter DEF CloseBegin, CloseAnnounce
<1>3. CASE CloseUnlist(s)
  <2>1. PICK cutMsg \in SUBSET {a \in Sessions : CanCut(msg[a], s)} :
           /\ \A a \in Sessions : msg'[a] \in {msg[a], Stale(msg[a]), Cut(msg[a], s)}
           /\ torn' = torn \union {a \in cutMsg : msg[a].op = "join"}
    BY <1>3 DEF CloseUnlist
  <2>2. \A a \in Sessions : msg'[a].op = msg[a].op
    BY <2>1 DEF Stale, Cut
  <2>3. Stage' = Stage
    BY <1>3, <2>2, StageFrame DEF CloseUnlist, Settled
  <2>4. \A a \in cutMsg : msg[a].op = "join" => a \in Sessions /\ Stage[a] # "present"
    BY <2>1 DEF Stage, Settled
  <2>5. Presence!CutShort
    <3>1. {a \in cutMsg : msg[a].op = "join"}
            \in SUBSET {u \in Sessions : Stage[u] # "present"}
      BY <2>4
    <3> QED
      BY <1>3, <2>1, <2>3, <3>1 DEF Presence!CutShort, CloseUnlist
  <2> QED
    BY <2>5 DEF Presence!Next
<1>4. CASE CloseUnname(s)
  <2>1. sock[s] \in {"broken", "closed"} /\ sock'[s] \in {"broken", "closed"}
    BY <1>4 DEF CloseUnname, CloseReturns, Lifecycle, TypeOK
  <2>2. Stage' = Stage
    BY <1>4, <2>1, StageFrame DEF CloseUnname, CloseReturns, Settled, TypeOK
  <2> QED
    BY <1>4, <2>2, PresenceStutter DEF CloseUnname
<1>5. CASE CloseBroadcast(s)
  <2>1. PICK t \in cls[s].todo : seen' = Told(t, seen[t] \ {s})
    BY <1>5 DEF CloseBroadcast
  <2>2. t \in Sessions
    BY <1>5, <2>1 DEF CloseBroadcast, TypeOK, ClsState, Cast
  <2>3. Stage' = Stage /\ UNCHANGED torn
    BY <1>5, StageFrame DEF CloseBroadcast, Settled
  <2>4. Stage[s] = "left"
    BY <1>1, <1>5 DEF CloseBroadcast
  <2>5. CASE sock[t] = "open"
    <3>1. Presence!Forget(t, s)
      BY <2>1, <2>3, <2>4, <2>5 DEF Presence!Forget, Told
    <3> QED
      BY <2>2, <3>1 DEF Presence!Next
  <2>6. CASE sock[t] # "open"
    BY <2>1, <2>3, <2>6, PresenceStutter DEF Told
  <2> QED
    BY <2>5, <2>6
<1>6. CASE CloseEnd(s)
  <2>1. sock[s] \in {"broken", "closed"} /\ sock'[s] \in {"broken", "closed"}
    BY <1>6 DEF CloseEnd, CloseReturns, Lifecycle, TypeOK
  <2>2. Stage' = Stage
    BY <1>6, <2>1, StageFrame DEF CloseEnd, CloseReturns, Settled, TypeOK
  <2> QED
    BY <1>6, <2>2, PresenceStutter DEF CloseEnd
<1> QED
  BY <1>2, <1>3, <1>4, <1>5, <1>6 DEF Closing

\* processMessage and registerCloseConnection keep the promise of ChatPresence:
\* a user comes to the room in one step, the end of the announcement, at which
\* everyone present and the user know of one another, and nobody is struck off
\* who has not left, however joins, closes and failures are interleaved.
THEOREM ImplementsPresence == Spec => PresenceSpec
<1>1. Init => Presence!Init
  BY DEF Init, Presence!Init, Stage, Settled
<1>2. TypeOK /\ Lifecycle /\ RoomInv /\ [Next]_vars => [Presence!Next]_Presence!vars
  <2> SUFFICES ASSUME TypeOK, Lifecycle, RoomInv, [Next]_vars
               PROVE  [Presence!Next]_Presence!vars
    OBVIOUS
  <2>1. CASE UNCHANGED vars
    BY <2>1, StageFrame, PresenceStutter DEF vars, Settled
  <2> QED
    BY <2>1, PresenceArriving, PresenceHandling, PresenceClosing DEF Next
<1> QED
  BY <1>1, <1>2, RoomCorrect, PTL DEF Spec, PresenceSpec, Presence!Spec
=============================================================================
