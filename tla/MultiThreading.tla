---------------------------- MODULE MultiThreading ----------------------------
(***************************************************************************)
(* org.nlh4j.util.MultiThreading: a thread that runs a group of child      *)
(* tasks, waits for them by polling and then calls performFinish(), while  *)
(* other threads add tasks, remove tasks, share data with them and         *)
(* interrupt the group.                                                    *)
(*                                                                         *)
(* `tasks' is a plain LinkedList: its getter is synchronized, but the list *)
(* it returns is used outside any lock.  Every traversal is therefore a    *)
(* fail-fast iterator that another thread's add or remove invalidates.     *)
(***************************************************************************)
EXTENDS Naturals, Sequences, FiniteSets, SequencesExt

CONSTANTS
    Threads,    \* the child threads a client may hand to the group
    Name,       \* Thread.getName(): two threads may carry the same name
    Callers,    \* the client threads that use the group's public methods
    Main,       \* the MultiThreading thread itself
    InitTasks,  \* the tasks given to the constructor
    Swallows,   \* the tasks whose run() catches InterruptedException and goes on
    MaxTasks    \* bound of the model: addTask is not called on a longer list

ASSUME ThreadsAssumption ==
    /\ InitTasks \in Seq(Threads)
    /\ Main \notin Callers
    /\ Swallows \subseteq Threads
    /\ MaxTasks \in Nat

VARIABLES
    tasks,      \* the LinkedList of child tasks
    shared,     \* the keys of the sharedData map
    state,      \* Thread state of each child: new, alive or dead
    flag,       \* the interrupt flag of each child
    it,         \* per actor, its iterator over tasks: nextIndex, and whether
                \* expectedModCount still equals modCount
    main,       \* what run() does next
    call        \* what each caller does next inside a public method

vars == <<tasks, shared, state, flag, it, main, call>>

Actors == Callers \union {Main}
Names == {Name[t] : t \in Threads}

NoIter == [pos |-> 0, fresh |-> TRUE]
Idle == [op |-> "idle"]

-----------------------------------------------------------------------------
(* Types *)

Iterator == [pos : Nat, fresh : BOOLEAN]
MainStep == {"created", "starting", "polling", "scanning", "sleeping", "finish", "failed"}
TaskStep == {"addStart", "remUnshare", "remUnlist", "setPut", "setShare"}
LoopStep == {"intLoop", "intClear", "intUnshare"}
Call == [op : {"idle"} \union LoopStep]
          \union [op : TaskStep, task : Threads]
          \union [op : {"remGet"}, index : Nat]

TypeOK ==
    /\ tasks \in Seq(Threads)
    /\ shared \in SUBSET Threads
    /\ state \in [Threads -> {"new", "alive", "dead"}]
    /\ flag \in [Threads -> BOOLEAN]
    /\ it \in [Actors -> Iterator]
    /\ main \in MainStep
    /\ call \in [Callers -> Call]

-----------------------------------------------------------------------------
(* The list and its iterators *)

Listed(t) == \E i \in DOMAIN tasks : tasks[i] = t

\* LinkedList.ListItr: hasNext() compares nextIndex with the size and never
\* looks at modCount; next() throws ConcurrentModificationException.
HasNext(a) == it[a].pos < Len(tasks)
Current(a) == tasks[it[a].pos + 1]
Advanced(a) == [it EXCEPT ![a] = [pos |-> @.pos + 1, fresh |-> @.fresh]]

Iterating(a) ==
    IF a = Main THEN main \in {"starting", "scanning"} ELSE call[a].op = "intLoop"

\* A structural modification makes every open iterator stale.
StaleIterators ==
    [a \in Actors |-> [pos |-> it[a].pos, fresh |-> it[a].fresh /\ ~Iterating(a)]]

\* A new iterator, and the resting value of one no loop is using.
Closed(a) == [it EXCEPT ![a] = NoIter]

\* getTask, getTaskIndex: the first task whose name matches.
IsFirstNamed(n, i) ==
    /\ i \in DOMAIN tasks
    /\ Name[tasks[i]] = n
    /\ \A j \in 1 .. (i - 1) : Name[tasks[j]] # n

\* Slip: a task that has ended is not counted as dead.
TaskDeath_flagOnly(t) == flag[t]

\* stillAlive: a task with the interrupt flag set counts as dead.
TaskDeath(t) == flag[t] \/ state[t] # "alive"

\* Thread.interrupt(): a thread not yet started may or may not record it, by
\* the version of the JDK; on a dead one nothing can tell the difference.
InterruptTask(t) ==
    \/ /\ state[t] # "dead"
       /\ flag' = [flag EXCEPT ![t] = TRUE]
    \/ /\ state[t] # "alive"
       /\ UNCHANGED flag

\* Thread.start(): a second start throws, and every caller swallows that.
StartTask(t) ==
    state' = [state EXCEPT ![t] = IF @ = "new" THEN "alive" ELSE @]

-----------------------------------------------------------------------------
(* run() *)

\* Assert.notEmpty(tasks), then the for-each opens its iterator.
RunBegin ==
    /\ main = "created"
    /\ main' = IF tasks = <<>> THEN "failed" ELSE "starting"
    /\ it' = Closed(Main)
    /\ UNCHANGED <<tasks, shared, state, flag, call>>

\* Slip: the exception of a second start() leaves the loop.
RunStart_breaks ==
    /\ main = "starting"
    /\ HasNext(Main)
    /\ it[Main].fresh
    /\ StartTask(Current(Main))
    /\ IF state[Current(Main)] = "new"
       THEN it' = Advanced(Main) /\ UNCHANGED main
       ELSE it' = Closed(Main) /\ main' = "polling"
    /\ UNCHANGED <<tasks, shared, flag, call>>

\* One turn of the loop that starts the tasks.
RunStart ==
    /\ main = "starting"
    /\ HasNext(Main)
    /\ it[Main].fresh
    /\ StartTask(Current(Main))
    /\ it' = Advanced(Main)
    /\ UNCHANGED <<tasks, shared, flag, main, call>>

RunStarted ==
    /\ main = "starting"
    /\ ~HasNext(Main)
    /\ main' = "polling"
    /\ it' = Closed(Main)
    /\ UNCHANGED <<tasks, shared, state, flag, call>>

\* ConcurrentModificationException leaves run(): performFinish is not reached.
RunFailed ==
    /\ main \in {"starting", "scanning"}
    /\ HasNext(Main)
    /\ ~it[Main].fresh
    /\ main' = "failed"
    /\ it' = Closed(Main)
    /\ UNCHANGED <<tasks, shared, state, flag, call>>

\* Slip: an empty list counts as alive.
PollBegin_emptyAlive ==
    /\ main = "polling"
    /\ main' = IF tasks = <<>> THEN "sleeping" ELSE "scanning"
    /\ it' = Closed(Main)
    /\ UNCHANGED <<tasks, shared, state, flag, call>>

\* while (stillAlive(FALSE)): an empty list ends the wait at once.
PollBegin ==
    /\ main = "polling"
    /\ main' = IF tasks = <<>> THEN "finish" ELSE "scanning"
    /\ it' = Closed(Main)
    /\ UNCHANGED <<tasks, shared, state, flag, call>>

\* The scan stops at the first task that is alive and not interrupted.
PollScan ==
    /\ main = "scanning"
    /\ HasNext(Main)
    /\ it[Main].fresh
    /\ \/ /\ TaskDeath(Current(Main))
          /\ it' = Advanced(Main)
          /\ UNCHANGED main
       \/ /\ ~TaskDeath(Current(Main))
          /\ it' = Closed(Main)
          /\ main' = "sleeping"
    /\ UNCHANGED <<tasks, shared, state, flag, call>>

\* The scan met no live task: performFinish().
RunFinish ==
    /\ main = "scanning"
    /\ ~HasNext(Main)
    /\ main' = "finish"
    /\ it' = Closed(Main)
    /\ UNCHANGED <<tasks, shared, state, flag, call>>

\* Thread.sleep(3000) returns, or is interrupted: both go round the loop.
WakeUp ==
    /\ main = "sleeping"
    /\ main' = "polling"
    /\ UNCHANGED <<tasks, shared, state, flag, it, call>>

MainNext ==
    \/ RunBegin \/ RunStart \/ RunStarted \/ RunFailed
    \/ PollBegin \/ PollScan \/ RunFinish \/ WakeUp

-----------------------------------------------------------------------------
(* The child tasks *)

TaskEnd(t) ==
    /\ state[t] = "alive"
    /\ state' = [state EXCEPT ![t] = "dead"]
    /\ flag' = [flag EXCEPT ![t] = FALSE]
    /\ UNCHANGED <<tasks, shared, it, main, call>>

\* catch (InterruptedException e) {}: the flag is cleared, the task goes on.
TaskSwallow(t) ==
    /\ t \in Swallows
    /\ state[t] = "alive"
    /\ flag[t]
    /\ flag' = [flag EXCEPT ![t] = FALSE]
    /\ UNCHANGED <<tasks, shared, state, it, main, call>>

-----------------------------------------------------------------------------
(* addTask(task, started) *)

AddTask(c, t, started) ==
    /\ call[c] = Idle
    /\ Len(tasks) < MaxTasks
    /\ tasks' = Append(tasks, t)
    /\ it' = StaleIterators
    /\ call' = IF started
               THEN [call EXCEPT ![c] = [op |-> "addStart", task |-> t]]
               ELSE call
    /\ UNCHANGED <<shared, state, flag, main>>

AddStart(c) ==
    /\ call[c].op = "addStart"
    /\ StartTask(call[c].task)
    /\ call' = [call EXCEPT ![c] = Idle]
    /\ UNCHANGED <<tasks, shared, flag, it, main>>

-----------------------------------------------------------------------------
(* removeTask(task | taskName, interrupted) *)

\* getTaskIndex found the task; an unknown name returns without effect.
RemoveLookup(c, n) ==
    /\ call[c] = Idle
    /\ \E i \in DOMAIN tasks :
          /\ IsFirstNamed(n, i)
          /\ call' = [call EXCEPT ![c] = [op |-> "remGet", index |-> i]]
    /\ UNCHANGED <<tasks, shared, state, flag, it, main>>

\* tasksList.get(idx) with the index found earlier, then child.interrupt().
RemoveGet(c, interrupted) ==
    /\ call[c].op = "remGet"
    /\ call[c].index \in DOMAIN tasks
    /\ LET child == tasks[call[c].index]
       IN /\ \/ interrupted /\ InterruptTask(child)
             \/ ~interrupted /\ UNCHANGED flag
          /\ call' = [call EXCEPT ![c] = [op |-> "remUnshare", task |-> child]]
    /\ UNCHANGED <<tasks, shared, state, it, main>>

\* The list has shrunk since: get(idx) throws IndexOutOfBoundsException.
RemoveOutOfBounds(c) ==
    /\ call[c].op = "remGet"
    /\ call[c].index \notin DOMAIN tasks
    /\ call' = [call EXCEPT ![c] = Idle]
    /\ UNCHANGED <<tasks, shared, state, flag, it, main>>

\* Slip: removeTask leaves the entry of sharedData.
RemoveUnshare_kept(c) ==
    /\ call[c].op = "remUnshare"
    /\ call' = [call EXCEPT ![c] = [op |-> "remUnlist", task |-> call[c].task]]
    /\ UNCHANGED <<tasks, shared, state, flag, it, main>>

RemoveUnshare(c) ==
    /\ call[c].op = "remUnshare"
    /\ shared' = shared \ {call[c].task}
    /\ call' = [call EXCEPT ![c] = [op |-> "remUnlist", task |-> call[c].task]]
    /\ UNCHANGED <<tasks, state, flag, it, main>>

\* LinkedList.remove(Object): the first occurrence, or nothing.
RemoveUnlist(c) ==
    /\ call[c].op = "remUnlist"
    /\ \/ \E i \in DOMAIN tasks :
             /\ tasks[i] = call[c].task
             /\ \A j \in 1 .. (i - 1) : tasks[j] # call[c].task
             /\ tasks' = RemoveAt(tasks, i)
             /\ it' = StaleIterators
       \/ /\ ~Listed(call[c].task)
          /\ UNCHANGED <<tasks, it>>
    /\ call' = [call EXCEPT ![c] = Idle]
    /\ UNCHANGED <<shared, state, flag, main>>

-----------------------------------------------------------------------------
(* setSharedData(task | taskName, data) *)

ShareLookup(c, n) ==
    /\ call[c] = Idle
    /\ \E i \in DOMAIN tasks :
          /\ IsFirstNamed(n, i)
          /\ call' = [call EXCEPT ![c] = [op |-> "setPut", task |-> tasks[i]]]
    /\ UNCHANGED <<tasks, shared, state, flag, it, main>>

\* Slip: the pending call forgets which task it shares with.
SharePut_forgets(c) ==
    /\ call[c].op = "setPut"
    /\ shared' = shared \union {call[c].task}
    /\ call' = [call EXCEPT ![c] = IF TaskDeath(call[c].task) THEN Idle ELSE [op |-> "setShare"]]
    /\ UNCHANGED <<tasks, state, flag, it, main>>

SharePut(c) ==
    /\ call[c].op = "setPut"
    /\ shared' = shared \union {call[c].task}
    /\ call' = [call EXCEPT
                  ![c] = IF TaskDeath(call[c].task)
                         THEN Idle
                         ELSE [op |-> "setShare", task |-> call[c].task]]
    /\ UNCHANGED <<tasks, state, flag, it, main>>

\* performSharing(task), the subclass's hook.
PerformSharing(c) ==
    /\ call[c].op = "setShare"
    /\ call' = [call EXCEPT ![c] = Idle]
    /\ UNCHANGED <<tasks, shared, state, flag, it, main>>

-----------------------------------------------------------------------------
(* interrupt(), which close() and finalize() run as well *)

InterruptBegin(c) ==
    /\ call[c] = Idle
    /\ call' = [call EXCEPT ![c] = [op |-> IF tasks = <<>> THEN "intClear" ELSE "intLoop"]]
    /\ it' = Closed(c)
    /\ UNCHANGED <<tasks, shared, state, flag, main>>

InterruptStep(c) ==
    /\ call[c].op = "intLoop"
    /\ HasNext(c)
    /\ it[c].fresh
    /\ \/ /\ TaskDeath(Current(c))
          /\ UNCHANGED <<flag, shared>>
       \/ /\ ~TaskDeath(Current(c))
          /\ InterruptTask(Current(c))
          /\ shared' = shared \ {Current(c)}
    /\ it' = Advanced(c)
    /\ UNCHANGED <<tasks, state, main, call>>

\* The iterator is stale: the exception leaves interrupt(), nothing is cleared.
InterruptFailed(c) ==
    /\ call[c].op = "intLoop"
    /\ HasNext(c)
    /\ ~it[c].fresh
    /\ call' = [call EXCEPT ![c] = Idle]
    /\ it' = Closed(c)
    /\ UNCHANGED <<tasks, shared, state, flag, main>>

InterruptLoopEnd(c) ==
    /\ call[c].op = "intLoop"
    /\ ~HasNext(c)
    /\ call' = [call EXCEPT ![c] = [op |-> "intClear"]]
    /\ it' = Closed(c)
    /\ UNCHANGED <<tasks, shared, state, flag, main>>

InterruptClear(c) ==
    /\ call[c].op = "intClear"
    /\ tasks' = <<>>
    /\ it' = StaleIterators
    /\ call' = [call EXCEPT ![c] = [op |-> "intUnshare"]]
    /\ UNCHANGED <<shared, state, flag, main>>

\* sharedData.clear() and super.interrupt(), which can only end the sleep.
InterruptUnshare(c) ==
    /\ call[c].op = "intUnshare"
    /\ shared' = {}
    /\ call' = [call EXCEPT ![c] = Idle]
    /\ UNCHANGED <<tasks, state, flag, it, main>>

-----------------------------------------------------------------------------
Init ==
    /\ tasks = InitTasks
    /\ shared = {}
    /\ state = [t \in Threads |-> "new"]
    /\ flag = [t \in Threads |-> FALSE]
    /\ it = [a \in Actors |-> NoIter]
    /\ main = "created"
    /\ call = [c \in Callers |-> Idle]

CallContinues(c) ==
    \/ AddStart(c)
    \/ \E interrupted \in BOOLEAN : RemoveGet(c, interrupted)
    \/ RemoveOutOfBounds(c) \/ RemoveUnshare(c) \/ RemoveUnlist(c)
    \/ SharePut(c) \/ PerformSharing(c)
    \/ InterruptStep(c) \/ InterruptFailed(c) \/ InterruptLoopEnd(c)
    \/ InterruptClear(c) \/ InterruptUnshare(c)

CallBegins(c) ==
    \/ \E t \in Threads, started \in BOOLEAN : AddTask(c, t, started)
    \/ \E n \in Names : RemoveLookup(c, n) \/ ShareLookup(c, n)
    \/ InterruptBegin(c)

Next ==
    \/ MainNext
    \/ \E t \in Threads : TaskEnd(t) \/ TaskSwallow(t)
    \/ \E c \in Callers : CallBegins(c) \/ CallContinues(c)

Spec == Init /\ [][Next]_vars

\* The scheduler runs every started thread; a task's own end is the client's.
Fairness ==
    /\ WF_vars(MainNext)
    /\ \A c \in Callers : WF_vars(CallContinues(c))

FairSpec == Spec /\ Fairness

-----------------------------------------------------------------------------
(* Properties *)

\* With a single client thread, between its calls sharedData only holds
\* entries of tasks that are in the group: removeTask and interrupt never
\* leave an entry behind (the map would pin the dead thread).
SharedScoped ==
    (\A c \in Callers : call[c] = Idle) => \A t \in shared : Listed(t)

\* The inductive strengthening of SharedScoped: where a call in progress
\* stands between the two halves of an update of tasks and sharedData.
SharedInv ==
    /\ \A t \in shared : Listed(t) \/ \E c \in Callers : call[c].op = "intUnshare"
    /\ \A c \in Callers : call[c].op = "setPut" => Listed(call[c].task)
    /\ \A c \in Callers : call[c].op = "remUnlist" => call[c].task \notin shared

\* When the loop of run() that starts the tasks ends and no one has modified
\* the list meanwhile, every listed task has been started: none is skipped.
AllListedStarted ==
    [][(main = "starting" /\ main' = "polling" /\ it[Main].fresh)
          => \A i \in DOMAIN tasks : state[tasks[i]] # "new"]_vars

\* The inductive strengthening of AllListedStarted: while no one modifies the
\* list, the iterator leaves no task behind that has not been started.
StartedInv ==
    main = "starting" /\ it[Main].fresh =>
        \A i \in DOMAIN tasks : i <= it[Main].pos => state[tasks[i]] # "new"

\* What the documentation of performFinish says: it is called right after all
\* tasks have been finished.
FinishAfterAll ==
    [][(main # "finish" /\ main' = "finish")
          => \A i \in DOMAIN tasks : state[tasks[i]] = "dead"]_vars

\* What the clients do if they leave the group itself alone: they share data,
\* but neither add, nor remove, nor interrupt.
OnlySharing ==
    [][/\ UNCHANGED tasks
       /\ \A c \in Callers : call'[c].op \in {"idle", "setPut", "setShare"}]_vars

\* The inductive strengthening of FinishAfterAll among such clients: no task is
\* interrupted, none is skipped, and the scan has passed only dead ones.
FinishInv ==
    /\ \A c \in Callers : call[c].op \in {"idle", "setPut", "setShare"}
    /\ \A t \in Threads : ~flag[t]
    /\ it[Main].fresh
    /\ main \in {"polling", "scanning", "sleeping", "finish"} =>
          \A i \in DOMAIN tasks : state[tasks[i]] # "new"
    /\ main = "scanning" =>
          \A i \in DOMAIN tasks : i <= it[Main].pos => state[tasks[i]] = "dead"

\* If no task runs for ever, run() ends too, whatever the clients do to the
\* list: it does not poll for a task that is gone.
RunEnds ==
    (\A t \in Threads : []<>(state[t] # "alive"))
        => ((main = "starting") ~> (main \in {"finish", "failed"}))

\* interrupt() and close() end a running group whatever its tasks do: once the
\* list stays empty, run() leaves its polling loop.
EmptyGroupEnds ==
    (<>[](tasks = <<>>)) => <>[](main \in {"created", "finish", "failed"})
=============================================================================
