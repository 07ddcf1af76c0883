------------------------ MODULE MultiThreading_proofs ------------------------
(***************************************************************************)
(* Proofs about MultiThreading: the types of its state, for any number of  *)
(* client threads; for a single one, that sharedData never outlives the    *)
(* membership of its tasks; that run() starts every listed task; and, for  *)
(* clients that only share data, that performFinish() comes after all of   *)
(* them have ended.                                                        *)
(***************************************************************************)
EXTENDS MultiThreading, TLAPS

\* Only one thread at a time uses the public methods of the group.
SingleCaller == \A a, b \in Callers : a = b

-----------------------------------------------------------------------------
(* Lists *)

\* Deleting one position of a list leaves a list of the same elements.
LEMMA RemoveAtShape ==
    ASSUME NEW S, NEW s \in Seq(S), NEW i \in DOMAIN s
    PROVE  /\ RemoveAt(s, i) \in Seq(S)
           /\ Len(RemoveAt(s, i)) = Len(s) - 1
           /\ \A k \in 1 .. (Len(s) - 1) :
                 RemoveAt(s, i)[k] = IF k < i THEN s[k] ELSE s[k + 1]
<1> DEFINE a == SubSeq(s, 1, i - 1)
           b == SubSeq(s, i + 1, Len(s))
<1>1. /\ Len(s) \in Nat
      /\ i \in 1 .. Len(s)
  OBVIOUS
<1>2. /\ a \in Seq(S)
      /\ Len(a) = i - 1
      /\ \A k \in 1 .. (i - 1) : a[k] = s[k]
  BY <1>1
<1>3. /\ b \in Seq(S)
      /\ Len(b) = Len(s) - i
      /\ \A k \in 1 .. (Len(s) - i) : b[k] = s[k + i]
  BY <1>1
<1>4. RemoveAt(s, i) = a \o b
  BY DEF RemoveAt
<1> HIDE DEF a, b
<1>5. /\ a \o b \in Seq(S)
      /\ Len(a \o b) = Len(s) - 1
  BY <1>1, <1>2, <1>3
<1>6. ASSUME NEW k \in 1 .. (Len(s) - 1)
      PROVE  (a \o b)[k] = IF k < i THEN s[k] ELSE s[k + 1]
  <2>1. CASE k < i
    BY <1>1, <1>2, <1>3, <2>1
  <2>2. CASE ~(k < i)
    <3>1. (a \o b)[k] = b[k - (i - 1)]
      BY SMTT(60), <1>1, <1>2, <1>3, <2>2
    <3>2. b[k - (i - 1)] = s[k + 1]
      BY <1>1, <1>3, <2>2
    <3> QED
      BY <2>2, <3>1, <3>2
  <2> QED
    BY <2>1, <2>2
<1> QED
  BY <1>4, <1>5, <1>6

\* Deleting one position keeps every element that stands elsewhere.
LEMMA RemoveAtKeeps ==
    ASSUME NEW S, NEW s \in Seq(S), NEW i \in DOMAIN s,
           NEW j \in DOMAIN s, j # i
    PROVE  \E k \in DOMAIN RemoveAt(s, i) : RemoveAt(s, i)[k] = s[j]
<1> DEFINE r == RemoveAt(s, i)
<1>1. /\ r \in Seq(S)
      /\ Len(r) = Len(s) - 1
      /\ \A k \in 1 .. Len(r) : r[k] = IF k < i THEN s[k] ELSE s[k + 1]
  BY RemoveAtShape
<1> HIDE DEF r
<1>2. CASE j < i
  <2>1. j \in 1 .. Len(r) /\ r[j] = s[j]
    BY <1>1, <1>2
  <2> QED
    BY <1>1, <2>1 DEF r
<1>3. CASE j > i
  <2>1. (j - 1) \in 1 .. Len(r) /\ r[j - 1] = s[j]
    BY <1>1, <1>3
  <2> QED
    BY <1>1, <2>1 DEF r
<1> QED
  BY <1>2, <1>3

-----------------------------------------------------------------------------
(* Types *)

\* Every step keeps the types.
LEMMA TypeStep ==
    ASSUME TypeOK, [Next]_vars
    PROVE  TypeOK'
<1> USE ThreadsAssumption DEF TypeOK, Actors, Iterator, MainStep, Call, TaskStep, LoopStep,
        Idle, NoIter
<1>1. ASSUME MainNext PROVE TypeOK'
  <2>1. CASE RunBegin
    BY <2>1 DEF RunBegin, Closed
  <2>2. CASE RunStart
    BY <2>2 DEF RunStart, StartTask, HasNext, Current, Advanced
  <2>3. CASE RunStarted
    BY <2>3 DEF RunStarted, Closed
  <2>4. CASE RunFailed
    BY <2>4 DEF RunFailed, Closed
  <2>5. CASE PollBegin
    BY <2>5 DEF PollBegin, Closed
  <2>6. CASE PollScan
    <3>1. Closed(Main) \in [Actors -> Iterator] /\ Advanced(Main) \in [Actors -> Iterator]
      BY DEF Closed, Advanced
    <3>2. it' \in [Actors -> Iterator] /\ main' \in MainStep
      BY <2>6, <3>1 DEF PollScan
    <3> QED
      BY <2>6, <3>2 DEF PollScan
  <2>7. CASE RunFinish
    BY <2>7 DEF RunFinish, Closed
  <2>8. CASE WakeUp
    BY <2>8 DEF WakeUp
  <2> QED
    BY <1>1, <2>1, <2>2, <2>3, <2>4, <2>5, <2>6, <2>7, <2>8 DEF MainNext
<1>2. ASSUME NEW t \in Threads, TaskEnd(t) \/ TaskSwallow(t) PROVE TypeOK'
  BY <1>2 DEF TaskEnd, TaskSwallow
<1>3. StaleIterators \in [Actors -> Iterator]
  BY DEF StaleIterators
<1>4. ASSUME NEW c \in Callers, CallBegins(c) PROVE TypeOK'
  <2>1. ASSUME NEW t \in Threads, NEW started \in BOOLEAN, AddTask(c, t, started)
        PROVE  TypeOK'
    BY <1>3, <2>1 DEF AddTask
  <2>2. ASSUME NEW n \in Names, RemoveLookup(c, n) PROVE TypeOK'
    BY <2>2 DEF RemoveLookup
  <2>3. ASSUME NEW n \in Names, ShareLookup(c, n) PROVE TypeOK'
    BY <2>3 DEF ShareLookup
  <2>4. CASE InterruptBegin(c)
    BY <2>4 DEF InterruptBegin, Closed
  <2> QED
    BY <1>4, <2>1, <2>2, <2>3, <2>4 DEF CallBegins
<1>5. ASSUME NEW c \in Callers, CallContinues(c) PROVE TypeOK'
  <2>1. CASE AddStart(c)
    BY <2>1 DEF AddStart, StartTask
  <2>2. ASSUME NEW interrupted \in BOOLEAN, RemoveGet(c, interrupted) PROVE TypeOK'
    <3>1. tasks[call[c].index] \in Threads
      BY <2>2 DEF RemoveGet
    <3>2. call' \in [Callers -> Call]
      BY <2>2, <3>1 DEF RemoveGet
    <3>3. flag' \in [Threads -> BOOLEAN]
      <4>1. CASE interrupted
        BY <2>2, <3>1, <4>1 DEF RemoveGet, InterruptTask
      <4>2. CASE ~interrupted
        BY <2>2, <4>2 DEF RemoveGet
      <4> QED
        BY <4>1, <4>2
    <3> QED
      BY <2>2, <3>2, <3>3 DEF RemoveGet
  <2>3. CASE RemoveOutOfBounds(c)
    BY <2>3 DEF RemoveOutOfBounds
  <2>4. CASE RemoveUnshare(c)
    BY <2>4 DEF RemoveUnshare
  <2>5. CASE RemoveUnlist(c)
    BY <1>3, <2>5, RemoveAtShape DEF RemoveUnlist
  <2>6. CASE SharePut(c)
    BY <2>6 DEF SharePut
  <2>7. CASE PerformSharing(c)
    BY <2>7 DEF PerformSharing
  <2>8. CASE InterruptStep(c)
    <3>1. Current(c) \in Threads
      BY <2>8 DEF InterruptStep, Current, HasNext
    <3>2. it' \in [Actors -> Iterator]
      BY <2>8 DEF InterruptStep, Advanced
    <3>3. flag' \in [Threads -> BOOLEAN] /\ shared' \in SUBSET Threads
      <4>1. CASE TaskDeath(Current(c))
        BY <2>8, <4>1 DEF InterruptStep
      <4>2. CASE ~TaskDeath(Current(c))
        BY <2>8, <3>1, <4>2 DEF InterruptStep, InterruptTask
      <4> QED
        BY <4>1, <4>2
    <3> QED
      BY <2>8, <3>2, <3>3 DEF InterruptStep
  <2>9. CASE InterruptFailed(c)
    BY <2>9 DEF InterruptFailed, Closed
  <2>10. CASE InterruptLoopEnd(c)
    BY <2>10 DEF InterruptLoopEnd, Closed
  <2>11. CASE InterruptClear(c)
    BY <1>3, <2>11 DEF InterruptClear
  <2>12. CASE InterruptUnshare(c)
    BY <2>12 DEF InterruptUnshare
  <2> QED
    BY <1>5, <2>1, <2>2, <2>3, <2>4, <2>5, <2>6, <2>7, <2>8, <2>9, <2>10, <2>11, <2>12
    DEF CallContinues
<1>6. CASE UNCHANGED vars
  BY <1>6 DEF vars
<1> QED
  BY <1>1, <1>2, <1>4, <1>5, <1>6 DEF Next

\* The variables of the group keep their types, for any number of threads
\* and of client threads, whatever calls they interleave.
THEOREM TypeCorrect == Spec => []TypeOK
<1>1. Init => TypeOK
  BY ThreadsAssumption
  DEF Init, TypeOK, Iterator, MainStep, Call, Idle, NoIter
<1> QED
  BY <1>1, TypeStep, PTL DEF Spec

-----------------------------------------------------------------------------
(* sharedData never outlives the membership of its tasks *)

\* An action that only touches the control state, the threads or the
\* iterators keeps SharedInv when it moves no caller into a guarded step.
LEMMA SharedFrame ==
    ASSUME SharedInv, UNCHANGED <<tasks, shared, call>>
    PROVE  SharedInv'
BY DEF SharedInv, Listed

\* With a single client thread every step keeps SharedInv.
LEMMA SharedStep ==
    ASSUME SingleCaller, TypeOK, SharedInv, [Next]_vars
    PROVE  SharedInv'
<1> USE ThreadsAssumption
<1>1. CASE MainNext
  BY <1>1, SharedFrame
  DEF MainNext, RunBegin, RunStart, RunStarted, RunFailed, PollBegin, PollScan, RunFinish, WakeUp
<1>2. ASSUME NEW t \in Threads, TaskEnd(t) \/ TaskSwallow(t) PROVE SharedInv'
  BY <1>2, SharedFrame DEF TaskEnd, TaskSwallow
<1>3. ASSUME NEW c \in Callers, CallBegins(c) PROVE SharedInv'
  <2>1. ASSUME NEW t \in Threads, NEW started \in BOOLEAN, AddTask(c, t, started)
        PROVE  SharedInv'
    <3>1. \A u : Listed(u) => Listed(u)'
      <4>1. /\ Len(tasks') = Len(tasks) + 1
            /\ \A i \in DOMAIN tasks : i \in DOMAIN tasks' /\ tasks'[i] = tasks[i]
        BY <2>1 DEF AddTask, TypeOK
      <4> QED
        BY <4>1 DEF Listed
    <3>2. /\ call[c].op = "idle"
          /\ call'[c].op \in {"idle", "addStart"}
          /\ shared' = shared
      BY <2>1 DEF AddTask, Idle, TypeOK
    <3> QED
      BY <3>1, <3>2, SingleCaller DEF SharedInv, SingleCaller
  <2>2. ASSUME NEW n \in Names, RemoveLookup(c, n) PROVE SharedInv'
    <3>1. /\ call[c].op = "idle"
          /\ call'[c].op = "remGet"
          /\ UNCHANGED <<tasks, shared>>
      BY <2>2 DEF RemoveLookup, Idle, TypeOK
    <3> QED
      BY <3>1 DEF SharedInv, SingleCaller, Listed
  <2>3. ASSUME NEW n \in Names, ShareLookup(c, n) PROVE SharedInv'
    <3>1. PICK i \in DOMAIN tasks :
               call' = [call EXCEPT ![c] = [op |-> "setPut", task |-> tasks[i]]]
      BY <2>3 DEF ShareLookup
    <3>2. /\ call[c].op = "idle"
          /\ call'[c].op = "setPut"
          /\ call'[c].task = tasks[i]
          /\ UNCHANGED <<tasks, shared>>
      BY <2>3, <3>1 DEF ShareLookup, Idle, TypeOK
    <3> QED
      BY <3>2 DEF SharedInv, SingleCaller, Listed
  <2>4. CASE InterruptBegin(c)
    <3>1. /\ call[c].op = "idle"
          /\ call'[c].op \in {"intClear", "intLoop"}
          /\ UNCHANGED <<tasks, shared>>
      BY <2>4 DEF InterruptBegin, Idle, TypeOK
    <3> QED
      BY <3>1 DEF SharedInv, SingleCaller, Listed
  <2> QED
    BY <1>3, <2>1, <2>2, <2>3, <2>4 DEF CallBegins
<1>4. ASSUME NEW c \in Callers, CallContinues(c) PROVE SharedInv'
  <2>1. CASE \/ AddStart(c)
             \/ \E interrupted \in BOOLEAN : RemoveGet(c, interrupted)
             \/ RemoveOutOfBounds(c)
             \/ PerformSharing(c)
             \/ InterruptFailed(c)
             \/ InterruptLoopEnd(c)
    <3>1. /\ call[c].op \notin {"intUnshare", "setPut", "remUnlist"}
          /\ call'[c].op \notin {"intUnshare", "setPut", "remUnlist"}
          /\ UNCHANGED <<tasks, shared>>
      BY <2>1
      DEF AddStart, RemoveGet, RemoveOutOfBounds, PerformSharing, InterruptFailed,
          InterruptLoopEnd, Idle, TypeOK
    <3> QED
      BY <3>1 DEF SharedInv, SingleCaller, Listed
  <2>2. CASE RemoveUnshare(c)
    <3>1. /\ call[c].op = "remUnshare"
          /\ call'[c].op = "remUnlist"
          /\ call'[c].task = call[c].task
          /\ shared' = shared \ {call[c].task}
          /\ UNCHANGED tasks
      BY <2>2 DEF RemoveUnshare, TypeOK
    <3> QED
      BY <3>1 DEF SharedInv, SingleCaller, Listed
  <2>3. CASE RemoveUnlist(c)
    <3>1. /\ call[c].op = "remUnlist"
          /\ call'[c].op = "idle"
          /\ UNCHANGED shared
      BY <2>3 DEF RemoveUnlist, Idle, TypeOK
    <3>2. ASSUME NEW t, Listed(t), t # call[c].task PROVE Listed(t)'
      <4>1. CASE UNCHANGED tasks
        BY <3>2, <4>1 DEF Listed
      <4>2. ASSUME NEW i \in DOMAIN tasks,
                   tasks[i] = call[c].task,
                   tasks' = RemoveAt(tasks, i)
            PROVE  Listed(t)'
        <5>1. PICK j \in DOMAIN tasks : tasks[j] = t
          BY <3>2 DEF Listed
        <5>2. j # i
          BY <3>2, <4>2, <5>1
        <5>3. \E k \in DOMAIN RemoveAt(tasks, i) : RemoveAt(tasks, i)[k] = tasks[j]
          BY <5>2, RemoveAtKeeps DEF TypeOK
        <5> QED
          BY <4>2, <5>1, <5>3 DEF Listed
      <4> QED
        BY <2>3, <4>1, <4>2 DEF RemoveUnlist
    <3> QED
      BY <3>1, <3>2 DEF SharedInv, SingleCaller
  <2>4. CASE SharePut(c)
    <3>1. /\ call[c].op = "setPut"
          /\ call'[c].op \in {"idle", "setShare"}
          /\ shared' = shared \union {call[c].task}
          /\ UNCHANGED tasks
      BY <2>4 DEF SharePut, Idle, TypeOK
    <3> QED
      BY <3>1 DEF SharedInv, SingleCaller, Listed
  <2>5. CASE InterruptStep(c)
    <3>1. /\ call[c].op = "intLoop"
          /\ UNCHANGED <<tasks, call>>
          /\ shared' \subseteq shared
      BY <2>5 DEF InterruptStep
    <3> QED
      BY <3>1 DEF SharedInv, SingleCaller, Listed
  <2>6. CASE InterruptClear(c)
    <3>1. /\ call[c].op = "intClear"
          /\ call'[c].op = "intUnshare"
      BY <2>6 DEF InterruptClear, TypeOK
    <3> QED
      BY <3>1 DEF SharedInv, SingleCaller
  <2>7. CASE InterruptUnshare(c)
    <3>1. /\ call[c].op = "intUnshare"
          /\ call'[c].op = "idle"
          /\ shared' = {}
      BY <2>7 DEF InterruptUnshare, Idle, TypeOK
    <3> QED
      BY <3>1 DEF SharedInv, SingleCaller
  <2> QED
    BY <1>4, <2>1, <2>2, <2>3, <2>4, <2>5, <2>6, <2>7 DEF CallContinues
<1>5. CASE UNCHANGED vars
  BY <1>5, SharedFrame DEF vars
<1> QED
  BY <1>1, <1>2, <1>3, <1>4, <1>5 DEF Next

\* A single client thread never leaves an entry of sharedData behind for a
\* task that is no longer in the group (removeTask, interrupt, close).
THEOREM SharedDataScoped == ASSUME SingleCaller PROVE Spec => []SharedScoped
<1>1. Init => SharedInv
  BY DEF Init, SharedInv, Idle
<1>2. TypeOK /\ SharedInv /\ [Next]_vars => SharedInv'
  BY SharedStep
<1>3. SharedInv => SharedScoped
  BY DEF SharedInv, SharedScoped, Idle
<1> QED
  BY <1>1, <1>2, <1>3, TypeCorrect, PTL DEF Spec
-----------------------------------------------------------------------------
(* run() starts every task that is listed *)

\* Nothing that leaves the list, run() and its iterator alone takes a started
\* task back.
LEMMA StartedFrame ==
    ASSUME TypeOK, StartedInv, UNCHANGED <<tasks, main>>, it'[Main] = it[Main],
           \A t \in Threads : state[t] # "new" => state'[t] # "new"
    PROVE  StartedInv'
<1>1. \A i \in DOMAIN tasks : tasks[i] \in Threads
  BY DEF TypeOK
<1> QED
  BY <1>1 DEF StartedInv

\* A modification of the list makes the iterator of run() stale.
LEMMA StaleStarted ==
    ASSUME TypeOK, it' = StaleIterators, UNCHANGED main
    PROVE  StartedInv'
<1>1. main = "starting" => ~it'[Main].fresh
  BY DEF TypeOK, Actors, StaleIterators, Iterating
<1> QED
  BY <1>1 DEF StartedInv

\* What a caller does to its own iterator does not touch the one of run().
LEMMA OwnIterator ==
    ASSUME TypeOK, NEW c \in Callers
    PROVE  Closed(c)[Main] = it[Main] /\ Advanced(c)[Main] = it[Main]
BY ThreadsAssumption DEF TypeOK, Actors, Closed, Advanced

\* Thread.start() takes no started thread back.
LEMMA StartKeeps ==
    ASSUME TypeOK, NEW t \in Threads, StartTask(t)
    PROVE  /\ state'[t] # "new"
           /\ \A u \in Threads : state[u] # "new" => state'[u] # "new"
           /\ \A u \in Threads : state[u] = "dead" => state'[u] = "dead"
BY DEF TypeOK, StartTask

\* One turn of the starting loop starts the task that the iterator passes.
LEMMA RunStartStep ==
    ASSUME TypeOK, StartedInv, RunStart
    PROVE  StartedInv'
<1>1. /\ it[Main].pos \in Nat
      /\ Len(tasks) \in Nat
      /\ it[Main].pos < Len(tasks)
      /\ it'[Main].pos = it[Main].pos + 1
  BY DEF RunStart, HasNext, Advanced, TypeOK, Actors, Iterator
<1>2. \A i \in DOMAIN tasks : i \in Nat /\ tasks[i] \in Threads
  BY DEF TypeOK
<1>3. Current(Main) \in Threads /\ StartTask(Current(Main))
  BY <1>1, <1>2 DEF RunStart, Current, TypeOK
<1>4. ASSUME NEW i \in DOMAIN tasks, i <= it[Main].pos + 1
      PROVE  state'[tasks[i]] # "new"
  <2>1. CASE i <= it[Main].pos
    BY <1>2, <1>3, <2>1, StartKeeps DEF RunStart, StartedInv
  <2>2. CASE i = it[Main].pos + 1
    BY <1>3, <2>2, StartKeeps DEF Current
  <2> QED
    BY <1>1, <1>2, <1>4, <2>1, <2>2
<1> QED
  BY <1>1, <1>4 DEF RunStart, StartedInv

\* Every step keeps StartedInv.
LEMMA StartedStep ==
    ASSUME TypeOK, StartedInv, [Next]_vars
    PROVE  StartedInv'
<1> USE ThreadsAssumption
<1>1. ASSUME MainNext PROVE StartedInv'
  <2>1. CASE RunBegin
    BY <2>1 DEF RunBegin, Closed, NoIter, StartedInv, TypeOK, Actors
  <2>2. CASE RunStart
    BY <2>2, RunStartStep
  <2>3. CASE RunStarted \/ RunFailed \/ PollBegin \/ RunFinish \/ WakeUp
    <3>1. main' # "starting"
      BY <2>3 DEF RunStarted, RunFailed, PollBegin, RunFinish, WakeUp
    <3> QED
      BY <3>1 DEF StartedInv
  <2>4. CASE PollScan
    BY <2>4 DEF PollScan, StartedInv
  <2> QED
    BY <1>1, <2>1, <2>2, <2>3, <2>4 DEF MainNext
<1>2. ASSUME NEW t \in Threads, TaskEnd(t) \/ TaskSwallow(t) PROVE StartedInv'
  BY <1>2, StartedFrame DEF TaskEnd, TaskSwallow, TypeOK
<1>3. ASSUME NEW c \in Callers, CallBegins(c) PROVE StartedInv'
  <2>1. ASSUME NEW t \in Threads, NEW started \in BOOLEAN, AddTask(c, t, started)
        PROVE  StartedInv'
    BY <2>1, StaleStarted DEF AddTask
  <2>2. ASSUME NEW n \in Names, RemoveLookup(c, n) \/ ShareLookup(c, n) PROVE StartedInv'
    BY <2>2, StartedFrame DEF RemoveLookup, ShareLookup
  <2>3. CASE InterruptBegin(c)
    BY <2>3, StartedFrame, OwnIterator DEF InterruptBegin
  <2> QED
    BY <1>3, <2>1, <2>2, <2>3 DEF CallBegins
<1>4. ASSUME NEW c \in Callers, CallContinues(c) PROVE StartedInv'
  <2>1. CASE AddStart(c)
    <3>1. call[c].task \in Threads
      BY <2>1 DEF AddStart, TypeOK, Call, TaskStep, LoopStep
    <3> QED
      BY <2>1, <3>1, StartKeeps, StartedFrame DEF AddStart
  <2>2. CASE \/ \E interrupted \in BOOLEAN : RemoveGet(c, interrupted)
             \/ RemoveOutOfBounds(c) \/ RemoveUnshare(c)
             \/ SharePut(c) \/ PerformSharing(c) \/ InterruptUnshare(c)
    <3>1. UNCHANGED <<tasks, main, it, state>>
      BY <2>2
      DEF RemoveGet, RemoveOutOfBounds, RemoveUnshare, SharePut, PerformSharing,
          InterruptUnshare
    <3> QED
      BY <3>1, StartedFrame
  <2>3. CASE InterruptStep(c) \/ InterruptFailed(c) \/ InterruptLoopEnd(c)
    <3>1. UNCHANGED <<tasks, main, state>> /\ it' \in {Closed(c), Advanced(c)}
      BY <2>3 DEF InterruptStep, InterruptFailed, InterruptLoopEnd
    <3> QED
      BY <3>1, StartedFrame, OwnIterator
  <2>4. CASE RemoveUnlist(c)
    <3>1. UNCHANGED <<main, state>> /\ (it' = StaleIterators \/ UNCHANGED <<tasks, it>>)
      BY <2>4 DEF RemoveUnlist
    <3> QED
      BY <3>1, StaleStarted, StartedFrame
  <2>5. CASE InterruptClear(c)
    BY <2>5, StaleStarted DEF InterruptClear
  <2> QED
    BY <1>4, <2>1, <2>2, <2>3, <2>4, <2>5 DEF CallContinues
<1>5. CASE UNCHANGED vars
  BY <1>5, StartedFrame DEF vars
<1> QED
  BY <1>1, <1>2, <1>3, <1>4, <1>5 DEF Next

\* The starting loop ends when its iterator has passed the whole list.
LEMMA StartingEnds ==
    ASSUME TypeOK, StartedInv, [Next]_vars,
           main = "starting", main' = "polling", it[Main].fresh
    PROVE  \A i \in DOMAIN tasks : state[tasks[i]] # "new"
<1>1. ~HasNext(Main)
  <2>1. RunStarted
    <3>1. \A c \in Callers : ~CallBegins(c) /\ ~CallContinues(c)
      BY DEF CallBegins, CallContinues, AddTask, RemoveLookup, ShareLookup, InterruptBegin,
             AddStart, RemoveGet, RemoveOutOfBounds, RemoveUnshare, RemoveUnlist, SharePut,
             PerformSharing, InterruptStep, InterruptFailed, InterruptLoopEnd, InterruptClear,
             InterruptUnshare
    <3>2. \A t \in Threads : ~TaskEnd(t) /\ ~TaskSwallow(t)
      BY DEF TaskEnd, TaskSwallow
    <3>3. ~UNCHANGED vars
      BY DEF vars
    <3> QED
      BY <3>1, <3>2, <3>3
      DEF Next, MainNext, RunBegin, RunStart, RunFailed, PollBegin, PollScan, RunFinish, WakeUp
  <2> QED
    BY <2>1 DEF RunStarted
<1>2. it[Main].pos \in Nat /\ Len(tasks) \in Nat /\ DOMAIN tasks = 1 .. Len(tasks)
  BY DEF TypeOK, Actors, Iterator
<1> QED
  BY <1>1, <1>2 DEF HasNext, StartedInv

\* run(): when the loop that starts the tasks ends and nobody has modified the
\* list meanwhile, every listed task has been started, for any number of
\* clients and whatever they do.
THEOREM AllListedStartedHolds == Spec => AllListedStarted
<1>1. Init => StartedInv
  BY DEF Init, StartedInv
<1>2. TypeOK /\ StartedInv /\ [Next]_vars => StartedInv'
  BY StartedStep
<1>3. TypeOK /\ StartedInv /\ [Next]_vars =>
        [(main = "starting" /\ main' = "polling" /\ it[Main].fresh)
            => \A i \in DOMAIN tasks : state[tasks[i]] # "new"]_vars
  BY StartingEnds
<1> QED
  BY <1>1, <1>2, <1>3, TypeCorrect, PTL DEF Spec, AllListedStarted
-----------------------------------------------------------------------------
(* performFinish() comes after all tasks *)

\* A call that only shares data changes nothing that FinishInv speaks of.
LEMMA SharingFrame ==
    ASSUME FinishInv, UNCHANGED <<tasks, state, flag, it, main>>,
           \A c \in Callers : call'[c].op \in {"idle", "setPut", "setShare"}
    PROVE  FinishInv'
BY DEF FinishInv

\* Each step of run() keeps FinishInv: a started task stays started, and the
\* scan passes a task only when it is dead.
LEMMA FinishMain ==
    ASSUME TypeOK, StartedInv, FinishInv, MainNext
    PROVE  FinishInv'
<1> USE ThreadsAssumption
<1>1. /\ \A i \in DOMAIN tasks : i \in Nat /\ tasks[i] \in Threads
      /\ Len(tasks) \in Nat
      /\ DOMAIN tasks = 1 .. Len(tasks)
      /\ it[Main].pos \in Nat
  BY DEF TypeOK, Actors, Iterator
<1>2. Closed(Main)[Main] = NoIter
  BY DEF TypeOK, Actors, Closed
<1>3. CASE RunBegin
  BY <1>2, <1>3 DEF RunBegin, NoIter, FinishInv
<1>4. CASE RunStart
  BY <1>4 DEF RunStart, Advanced, TypeOK, Actors, FinishInv
<1>5. CASE RunStarted
  <2>1. \A i \in DOMAIN tasks : state[tasks[i]] # "new"
    BY <1>1, <1>5 DEF RunStarted, HasNext, StartedInv, FinishInv
  <2> QED
    BY <1>2, <1>5, <2>1 DEF RunStarted, NoIter, FinishInv
<1>6. CASE RunFailed
  BY <1>6 DEF RunFailed, FinishInv
<1>7. CASE PollBegin
  <2>1. \A i \in DOMAIN tasks : ~(i <= it'[Main].pos)
    BY <1>1, <1>2, <1>7 DEF PollBegin, NoIter
  <2>2. it'[Main].fresh
    BY <1>2, <1>7 DEF PollBegin, NoIter
  <2> QED
    BY <1>7, <2>1, <2>2 DEF PollBegin, FinishInv
<1>8. CASE PollScan
  <2>1. /\ it[Main].pos + 1 \in DOMAIN tasks
        /\ Current(Main) = tasks[it[Main].pos + 1]
    BY <1>1, <1>8 DEF PollScan, HasNext, Current
  <2>2. CASE TaskDeath(Current(Main)) /\ it' = Advanced(Main) /\ UNCHANGED main
    <3>1. state[Current(Main)] = "dead"
      BY <1>1, <1>8, <2>1, <2>2 DEF PollScan, TaskDeath, FinishInv, TypeOK
    <3>2. it'[Main].pos = it[Main].pos + 1 /\ it'[Main].fresh
      BY <1>8, <2>2 DEF PollScan, Advanced, TypeOK, Actors
    <3>3. \A i \in DOMAIN tasks : i <= it'[Main].pos => state[tasks[i]] = "dead"
      <4> TAKE i \in DOMAIN tasks
      <4>1. CASE i <= it[Main].pos
        BY <1>8, <4>1 DEF PollScan, FinishInv
      <4>2. CASE i = it[Main].pos + 1
        BY <2>1, <3>1, <4>2
      <4> QED
        BY <1>1, <3>2, <4>1, <4>2
    <3> QED
      BY <1>8, <2>2, <3>2, <3>3 DEF PollScan, FinishInv
  <2>3. CASE it' = Closed(Main) /\ main' = "sleeping"
    BY <1>2, <1>8, <2>3 DEF PollScan, NoIter, FinishInv
  <2> QED
    BY <1>8, <2>2, <2>3 DEF PollScan
<1>9. CASE RunFinish
  BY <1>2, <1>9 DEF RunFinish, NoIter, FinishInv
<1>10. CASE WakeUp
  BY <1>10 DEF WakeUp, FinishInv
<1> QED
  BY <1>3, <1>4, <1>5, <1>6, <1>7, <1>8, <1>9, <1>10 DEF MainNext

\* Among clients that only share data, every step keeps FinishInv.
LEMMA FinishStep ==
    ASSUME TypeOK, StartedInv, FinishInv, Next,
           UNCHANGED tasks,
           \A c \in Callers : call'[c].op \in {"idle", "setPut", "setShare"}
    PROVE  FinishInv'
<1>1. CASE MainNext
  BY <1>1, FinishMain
<1>2. ASSUME NEW t \in Threads, TaskEnd(t) \/ TaskSwallow(t) PROVE FinishInv'
  BY <1>2 DEF TaskEnd, TaskSwallow, FinishInv, TypeOK
<1>3. ASSUME NEW c \in Callers, CallBegins(c) PROVE FinishInv'
  <2>1. ASSUME NEW t \in Threads, NEW started \in BOOLEAN, AddTask(c, t, started)
        PROVE  FALSE
    <3>1. Len(tasks') = Len(tasks) + 1 /\ Len(tasks) \in Nat
      BY <2>1 DEF AddTask, TypeOK
    <3> QED
      BY <3>1
  <2>2. ASSUME NEW n \in Names, RemoveLookup(c, n) PROVE FALSE
    BY <2>2 DEF RemoveLookup, TypeOK
  <2>3. ASSUME NEW n \in Names, ShareLookup(c, n) PROVE FinishInv'
    BY <2>3, SharingFrame DEF ShareLookup
  <2>4. CASE InterruptBegin(c)
    BY <2>4 DEF InterruptBegin, TypeOK
  <2> QED
    BY <1>3, <2>1, <2>2, <2>3, <2>4 DEF CallBegins
<1>4. ASSUME NEW c \in Callers, CallContinues(c) PROVE FinishInv'
  <2>1. call[c].op \in {"idle", "setPut", "setShare"}
    BY DEF FinishInv
  <2>2. SharePut(c) \/ PerformSharing(c)
    BY <1>4, <2>1
    DEF CallContinues, AddStart, RemoveGet, RemoveOutOfBounds, RemoveUnshare, RemoveUnlist,
        InterruptStep, InterruptFailed, InterruptLoopEnd, InterruptClear, InterruptUnshare
  <2> QED
    BY <2>2, SharingFrame DEF SharePut, PerformSharing
<1> QED
  BY <1>1, <1>2, <1>3, <1>4 DEF Next

\* run() comes to performFinish() only when the scan has passed the whole list.
LEMMA FinishReached ==
    ASSUME TypeOK, StartedInv, FinishInv, Next, main # "finish", main' = "finish"
    PROVE  \A i \in DOMAIN tasks : state[tasks[i]] = "dead"
<1>1. /\ Len(tasks) \in Nat
      /\ DOMAIN tasks = 1 .. Len(tasks)
      /\ it[Main].pos \in Nat
  BY DEF TypeOK, Actors, Iterator
<1>2. ASSUME NEW c \in Callers PROVE ~CallBegins(c) /\ ~CallContinues(c)
  BY DEF CallBegins, CallContinues, AddTask, RemoveLookup, ShareLookup, InterruptBegin,
         AddStart, RemoveGet, RemoveOutOfBounds, RemoveUnshare, RemoveUnlist, SharePut,
         PerformSharing, InterruptStep, InterruptFailed, InterruptLoopEnd, InterruptClear,
         InterruptUnshare
<1>3. MainNext
  BY <1>2 DEF Next, TaskEnd, TaskSwallow
<1>4. CASE PollBegin
  BY <1>1, <1>4 DEF PollBegin
<1>5. CASE RunFinish
  BY <1>1, <1>5 DEF RunFinish, HasNext, FinishInv
<1>6. PollBegin \/ RunFinish
  BY <1>3
  DEF MainNext, RunBegin, RunStart, RunStarted, RunFailed, PollScan, WakeUp
<1> QED
  BY <1>4, <1>5, <1>6

\* performFinish() is called after all tasks have ended, as its documentation
\* says, if the clients only share data with the tasks meanwhile: adding a
\* task, removing one or interrupting the group is what breaks the promise.
THEOREM FinishAfterAllHolds == Spec /\ OnlySharing => FinishAfterAll
<1> DEFINE Sharing == /\ UNCHANGED tasks
                      /\ \A c \in Callers : call'[c].op \in {"idle", "setPut", "setShare"}
           After == (main # "finish" /\ main' = "finish")
                       => \A i \in DOMAIN tasks : state[tasks[i]] = "dead"
<1>1. Init => StartedInv /\ FinishInv
  BY ThreadsAssumption DEF Init, StartedInv, FinishInv, Idle, NoIter, Actors
<1>2. TypeOK /\ StartedInv /\ [Next]_vars => StartedInv'
  BY StartedStep
<1>3. TypeOK /\ StartedInv /\ FinishInv /\ [Next]_vars /\ [Sharing]_vars => FinishInv'
  <2>1. ASSUME UNCHANGED vars, FinishInv PROVE FinishInv'
    BY <2>1 DEF vars, FinishInv
  <2> QED
    BY <2>1, FinishStep
<1>4. TypeOK /\ StartedInv /\ FinishInv /\ [Next]_vars => [After]_vars
  BY FinishReached
<1>5. OnlySharing <=> [][Sharing]_vars
  BY DEF OnlySharing
<1>6. FinishAfterAll <=> [][After]_vars
  BY DEF FinishAfterAll
<1> HIDE DEF Sharing, After
<1> QED
  BY <1>1, <1>2, <1>3, <1>4, <1>5, <1>6, TypeCorrect, PTL DEF Spec
=============================================================================
