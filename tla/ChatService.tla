------------------------------ MODULE ChatService ------------------------------
(***************************************************************************)
(* org.nlh4j.core.service.ChatServiceImpl, driven by TextWebSocketHandler: *)
(* one chat room.  The container calls it from several threads: the        *)
(* messages of one connection one after the other, those of different      *)
(* connections, and the close of a connection, at the same time.           *)
(*                                                                         *)
(* `conns' is a synchronized LinkedHashSet that every broadcast iterates   *)
(* without holding its lock; `nickNames' is a ConcurrentHashMap.           *)
(*                                                                         *)
(* A nickname is represented by the connection that chose it: the clients  *)
(* tell users apart by it, and nothing in the code keeps two users from    *)
(* choosing the same one, which is left out, as is the order of the two    *)
(* collections.                                                            *)
(***************************************************************************)
EXTENDS FiniteSets

CONSTANTS
    Sessions,       \* the WebSocketSessions: a reconnection is a new one
    Joiners,        \* the sessions that send a nickname
    Talkers,        \* the sessions that send messages after their nickname
    Leavers,        \* the sessions whose peer or network may go away
    Overlapping     \* the sessions whose close the container may report while
                    \* it is still handling a message of theirs

ASSUME ChatAssumption ==
    /\ Joiners \subseteq Sessions
    /\ Talkers \subseteq Joiners
    /\ Leavers \subseteq Sessions
    /\ Overlapping \subseteq Sessions

VARIABLES
    sock,   \* new, open, broken (an error will be reported first), closed
    conns,  \* the registered connections
    nicks,  \* the sessions that have an entry in nickNames
    msg,    \* what processMessage does next, per session
    cls,    \* what registerCloseConnection does next, per session
    seen,   \* the users each client has been told of, by addUser and removeUser
    torn    \* history: joins whose broadcast was silently cut short

vars == <<sock, conns, nicks, msg, cls, seen, torn>>

Idle == [op |-> "idle"]
None == [op |-> "none"]
Done == [op |-> "done"]

-----------------------------------------------------------------------------
(* Types *)

\* A broadcast in progress: the connections its iterator still has to visit,
\* and whether the iterator's expectedModCount still equals modCount.
Cast(ops) == [op : ops, todo : SUBSET Sessions, fresh : BOOLEAN]

MsgState == [op : {"idle", "put", "announce"}]
              \union [op : {"greet"}, todo : SUBSET Sessions]
              \union Cast({"join", "say"})

ClsState == [op : {"none", "done"}]
              \union [op : {"unlist", "unname"}, known : BOOLEAN]
              \union [op : {"farewell"}]
              \union Cast({"leave"})

TypeOK ==
    /\ sock \in [Sessions -> {"new", "open", "broken", "closed"}]
    /\ conns \in SUBSET Sessions
    /\ nicks \in SUBSET Sessions
    /\ msg \in [Sessions -> MsgState]
    /\ cls \in [Sessions -> ClsState]
    /\ seen \in [Sessions -> SUBSET Sessions]
    /\ torn \in SUBSET Sessions

-----------------------------------------------------------------------------
(* Iterators and sends *)

Casting(call) == call.op \in {"join", "say", "leave"}

Iterator(kind) == [op |-> kind, todo |-> conns, fresh |-> TRUE]

Visited(call, t) == [op |-> call.op, todo |-> call.todo \ {t}, fresh |-> call.fresh]

Stale(call) ==
    IF Casting(call) THEN [op |-> call.op, todo |-> call.todo, fresh |-> FALSE] ELSE call

\* LinkedHashIterator.nextNode checks modCount and then follows the entry's
\* `after': an entry removed in between has lost it, and the loop ends there.
Cut(call, t) == [op |-> call.op, todo |-> {t}, fresh |-> TRUE]

CanCut(call, t) == Casting(call) /\ call.fresh /\ t \in call.todo

\* Another thread may be writing to the same connection: the container then
\* throws IllegalStateException, as it does on a closed one.
WritingTo(call, owner, t) ==
    \/ Casting(call) /\ t \in call.todo
    \/ call.op = "greet" /\ owner = t

CanRefuse(t) ==
    \/ sock[t] # "open"
    \/ \E a \in Sessions, b \in Sessions :
          \/ a # b /\ WritingTo(msg[a], a, t) /\ WritingTo(msg[b], b, t)
          \/ WritingTo(msg[a], a, t) /\ WritingTo(cls[b], b, t)
          \/ a # b /\ WritingTo(cls[a], a, t) /\ WritingTo(cls[b], b, t)

\* A call that is broadcasting leaves its loop by an exception: next() finds
\* the set modified, or a send throws something else than IOException.
CastFails(call) ==
    /\ Casting(call)
    /\ \/ call.todo # {} /\ ~call.fresh
       \/ \E t \in call.todo : CanRefuse(t)

\* An IOException is logged and the loop goes on: the client just misses it.
Told(t, users) ==
    IF sock[t] = "open" THEN [seen EXCEPT ![t] = users] ELSE seen

-----------------------------------------------------------------------------
(* afterConnectionEstablished *)

RegisterOpen(s) ==
    /\ sock[s] = "new"
    /\ sock' = [sock EXCEPT ![s] = "open"]
    /\ conns' = conns \union {s}
    /\ msg' = [a \in Sessions |-> Stale(msg[a])]
    /\ cls' = [a \in Sessions |-> Stale(cls[a])]
    /\ UNCHANGED <<nicks, seen, torn>>

\* The peer or the network ends the connection.
Break(s, how) ==
    /\ s \in Leavers
    /\ sock[s] = "open"
    /\ sock' = [sock EXCEPT ![s] = how]
    /\ UNCHANGED <<conns, nicks, msg, cls, seen, torn>>

-----------------------------------------------------------------------------
(* processMessage *)

\* The first message is the nickname.
FirstMessage(s) ==
    /\ s \in Joiners
    /\ sock[s] = "open"
    /\ msg[s] = Idle
    /\ s \notin nicks
    /\ msg' = [msg EXCEPT ![s] = [op |-> "greet", todo |-> nicks]]
    /\ UNCHANGED <<sock, conns, nicks, cls, seen, torn>>

\* The iterator of nickNames is weakly consistent: a nickname that is there
\* all along is sent, one put meanwhile or removed meanwhile may be.
Greet(s) ==
    /\ msg[s].op = "greet"
    /\ \E t \in msg[s].todo \union nicks :
          /\ seen' = Told(s, seen[s] \union {t})
          /\ msg' = [msg EXCEPT ![s] = [op |-> "greet", todo |-> msg[s].todo \ {t}]]
    /\ UNCHANGED <<sock, conns, nicks, cls, torn>>

\* Slip: the nicknames already sent are put with the new one.
GreetEnd_keeps(s) ==
    /\ msg[s].op = "greet"
    /\ msg[s].todo \intersect nicks = {}
    /\ msg' = [msg EXCEPT ![s] = [op |-> "put", todo |-> nicks]]
    /\ UNCHANGED <<sock, conns, nicks, cls, seen, torn>>

GreetEnd(s) ==
    /\ msg[s].op = "greet"
    /\ msg[s].todo \intersect nicks = {}
    /\ msg' = [msg EXCEPT ![s] = [op |-> "put"]]
    /\ UNCHANGED <<sock, conns, nicks, cls, seen, torn>>

Put(s) ==
    /\ msg[s].op = "put"
    /\ nicks' = nicks \union {s}
    /\ msg' = [msg EXCEPT ![s] = [op |-> "announce"]]
    /\ UNCHANGED <<sock, conns, cls, seen, torn>>

\* Slip: the new user is announced to those who have a nickname.
Announce_named(s) ==
    /\ msg[s].op = "announce"
    /\ msg' = [msg EXCEPT ![s] = [op |-> "join", todo |-> conns \intersect nicks, fresh |-> TRUE]]
    /\ UNCHANGED <<sock, conns, nicks, cls, seen, torn>>

Announce(s) ==
    /\ msg[s].op = "announce"
    /\ msg' = [msg EXCEPT ![s] = Iterator("join")]
    /\ UNCHANGED <<sock, conns, nicks, cls, seen, torn>>

\* Every later message goes to everyone.
Say(s) ==
    /\ s \in Talkers
    /\ sock[s] = "open"
    /\ msg[s] = Idle
    /\ s \in nicks
    /\ msg' = [msg EXCEPT ![s] = Iterator("say")]
    /\ UNCHANGED <<sock, conns, nicks, cls, seen, torn>>

Broadcast(s) ==
    /\ Casting(msg[s])
    /\ msg[s].fresh
    /\ \E t \in msg[s].todo :
          /\ seen' = IF msg[s].op = "join" THEN Told(t, seen[t] \union {s}) ELSE seen
          /\ msg' = [msg EXCEPT ![s] = Visited(msg[s], t)]
    /\ UNCHANGED <<sock, conns, nicks, cls, torn>>

BroadcastEnd(s) ==
    /\ Casting(msg[s])
    /\ msg[s].todo = {}
    /\ msg' = [msg EXCEPT ![s] = Idle]
    /\ UNCHANGED <<sock, conns, nicks, cls, seen, torn>>

\* An exception that leaves the handler makes Spring close the connection.
MessageFails(s) ==
    /\ \/ CastFails(msg[s])
       \/ msg[s].op = "greet" /\ CanRefuse(s)
    /\ msg' = [msg EXCEPT ![s] = Idle]
    /\ sock' = [sock EXCEPT ![s] = IF sock[s] = "open" THEN "closed" ELSE sock[s]]
    /\ UNCHANGED <<conns, nicks, cls, seen, torn>>

-----------------------------------------------------------------------------
(* registerCloseConnection: for handleTransportError, then for
   afterConnectionClosed *)

\* Slip: a connection that has no nickname is not unregistered.
CloseBegin_named(s) ==
    /\ sock[s] \in {"broken", "closed"}
    /\ cls[s] = None
    /\ s \in Overlapping \/ msg[s] = Idle
    /\ cls' = [cls EXCEPT ![s] = IF s \in nicks THEN [op |-> "unlist", known |-> TRUE] ELSE Done]
    /\ UNCHANGED <<sock, conns, nicks, msg, seen, torn>>

\* Slip: an idle connection is dropped as if it were closed.
CloseBegin_idle(s) ==
    /\ sock[s] \in {"broken", "closed"} \/ msg[s] = Idle
    /\ cls[s] = None
    /\ s \in Overlapping \/ msg[s] = Idle
    /\ cls' = [cls EXCEPT ![s] = [op |-> "unlist", known |-> s \in nicks]]
    /\ UNCHANGED <<sock, conns, nicks, msg, seen, torn>>

CloseBegin(s) ==
    /\ sock[s] \in {"broken", "closed"}
    /\ cls[s] = None
    /\ s \in Overlapping \/ msg[s] = Idle
    /\ cls' = [cls EXCEPT ![s] = [op |-> "unlist", known |-> s \in nicks]]
    /\ UNCHANGED <<sock, conns, nicks, msg, seen, torn>>

\* The broadcasts that are just fetching this entry end after it, those that
\* have not come to it will find the set modified.
CloseUnlist(s) ==
    /\ cls[s].op = "unlist"
    /\ conns' = conns \ {s}
    /\ \E cutMsg \in SUBSET {a \in Sessions : CanCut(msg[a], s)},
          cutCls \in SUBSET {a \in Sessions : CanCut(cls[a], s)} :
          /\ s \in conns \/ (cutMsg = {} /\ cutCls = {})
          /\ msg' = [a \in Sessions |->
                       IF s \notin conns THEN msg[a]
                       ELSE IF a \in cutMsg THEN Cut(msg[a], s) ELSE Stale(msg[a])]
          /\ cls' = [a \in Sessions |->
                       IF a = s THEN [op |-> "unname", known |-> cls[s].known]
                       ELSE IF s \notin conns THEN cls[a]
                       ELSE IF a \in cutCls THEN Cut(cls[a], s) ELSE Stale(cls[a])]
          /\ torn' = torn \union {a \in cutMsg : msg[a].op = "join"}
    /\ UNCHANGED <<sock, nicks, seen>>

\* registerCloseConnection returns: after a transport error the container goes
\* on to close the connection, and calls it again.
CloseReturns(s) ==
    /\ sock' = [sock EXCEPT ![s] = "closed"]
    /\ cls' = [cls EXCEPT ![s] = IF sock[s] = "broken" THEN None ELSE Done]

\* Slip: a nickname is only freed when nobody has to be told.
CloseUnname_unknown(s) ==
    /\ cls[s].op = "unname"
    /\ \/ /\ cls[s].known
          /\ cls' = [cls EXCEPT ![s] = [op |-> "farewell"]]
          /\ UNCHANGED <<sock, nicks>>
       \/ /\ ~cls[s].known
          /\ nicks' = nicks \ {s}
          /\ CloseReturns(s)
    /\ UNCHANGED <<conns, msg, seen, torn>>

CloseUnname(s) ==
    /\ cls[s].op = "unname"
    /\ nicks' = nicks \ {s}
    /\ \/ /\ cls[s].known
          /\ cls' = [cls EXCEPT ![s] = [op |-> "farewell"]]
          /\ UNCHANGED sock
       \/ /\ ~cls[s].known
          /\ CloseReturns(s)
    /\ UNCHANGED <<conns, msg, seen, torn>>

CloseAnnounce(s) ==
    /\ cls[s].op = "farewell"
    /\ cls' = [cls EXCEPT ![s] = Iterator("leave")]
    /\ UNCHANGED <<sock, conns, nicks, msg, seen, torn>>

CloseBroadcast(s) ==
    /\ cls[s].op = "leave"
    /\ cls[s].fresh
    /\ \E t \in cls[s].todo :
          /\ seen' = Told(t, seen[t] \ {s})
          /\ cls' = [cls EXCEPT ![s] = Visited(cls[s], t)]
    /\ UNCHANGED <<sock, conns, nicks, msg, torn>>

\* The loop is over, or an exception ends it and is only logged.
CloseEnd(s) ==
    /\ cls[s].op = "leave"
    /\ cls[s].todo = {} \/ CastFails(cls[s])
    /\ CloseReturns(s)
    /\ UNCHANGED <<conns, nicks, msg, seen, torn>>

-----------------------------------------------------------------------------
Init ==
    /\ sock = [s \in Sessions |-> "new"]
    /\ conns = {}
    /\ nicks = {}
    /\ msg = [s \in Sessions |-> Idle]
    /\ cls = [s \in Sessions |-> None]
    /\ seen = [s \in Sessions |-> {}]
    /\ torn = {}

Handling(s) ==
    \/ Greet(s) \/ GreetEnd(s) \/ Put(s) \/ Announce(s)
    \/ Broadcast(s) \/ BroadcastEnd(s) \/ MessageFails(s)

Closing(s) ==
    \/ CloseBegin(s) \/ CloseUnlist(s) \/ CloseUnname(s)
    \/ CloseAnnounce(s) \/ CloseBroadcast(s) \/ CloseEnd(s)

Arriving(s) ==
    \/ RegisterOpen(s)
    \/ \E how \in {"broken", "closed"} : Break(s, how)
    \/ FirstMessage(s) \/ Say(s)

Next == \E s \in Sessions : Arriving(s) \/ Handling(s) \/ Closing(s)

Spec == Init /\ [][Next]_vars

\* The container's threads go on, and report every close; clients owe nothing.
Fairness == \A s \in Sessions : WF_vars(Handling(s)) /\ WF_vars(Closing(s))

FairSpec == Spec /\ Fairness

-----------------------------------------------------------------------------
(* Properties *)

InRoom(s) == s \in nicks /\ sock[s] = "open" /\ msg[s] = Idle

\* Whatever the order in which two users joined, each has been told of the
\* other: by the greeting or by the other's broadcast.  The one exception is
\* a join whose broadcast lost its place in the set.
RoomSeen == \A s, t \in Sessions : InRoom(s) /\ InRoom(t) => t \in seen[s] \/ t \in torn

\* A connection whose close has been handled is not written to any more.
ClosedUnlisted == \A s \in Sessions : cls[s] = Done => s \notin conns

\* If the container serialises the calls of a connection, the nickname of it
\* is free once it is closed, and new users are not told of it.
ClosedUnnamed == \A s \in Sessions \ Overlapping : cls[s] = Done => s \notin nicks

\* The inductive strengthening of ClosedUnlisted and RoomSeen.  Lifecycle is
\* where a connection stands between its opening and its close; Learns is how
\* an open connection s comes to know of the user t: it has been told, t has
\* not announced itself, t's broadcast will come to s or will end by an
\* exception that closes t, or s has still to greet.
Lifecycle ==
    \A s \in Sessions :
       /\ sock[s] = "new" => msg[s] = Idle /\ s \notin nicks
       /\ sock[s] = "open" => s \in conns
       /\ cls[s] # None => sock[s] \in {"broken", "closed"}
       /\ cls[s].op \notin {"none", "unlist"} => s \notin conns

Learns(s, t) ==
    \/ t \in seen[s]
    \/ msg[t].op = "announce"
    \/ msg[t].op = "join" /\ s \in msg[t].todo
    \/ msg[t].op = "join" /\ msg[t].todo # {} /\ ~msg[t].fresh
    \/ s \notin nicks /\ msg[s] = Idle
    \/ s \notin nicks /\ msg[s].op = "greet" /\ t \in msg[s].todo

RoomInv ==
    \A s, t \in Sessions :
       sock[s] = "open" /\ sock[t] = "open" /\ t \in nicks /\ t \notin torn => Learns(s, t)

\* When a user has come to the room, and when one has left it.
Settled(s) == s \in nicks /\ sock[s] = "open" /\ msg[s].op \in {"idle", "say"}

Stage == [s \in Sessions |->
    IF sock[s] \in {"broken", "closed"} THEN "left"
    ELSE IF Settled(s) THEN "present" ELSE "away"]

Presence == INSTANCE ChatPresence WITH
               Users <- Sessions,
               stage <- Stage,
               knows <- seen,
               cut <- torn

\* The greetings, announcements and farewells of processMessage and
\* registerCloseConnection keep the promise of the room.
PresenceSpec == Presence!Spec

\* A broken connection is always unregistered in the end, whatever exceptions
\* the broadcasts meet.
BrokenUnlisted ==
    \A s \in Sessions : (sock[s] \in {"broken", "closed"}) ~> (s \notin conns)
=============================================================================
