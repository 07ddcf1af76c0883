----------------------------- MODULE JobScheduler -----------------------------
(***************************************************************************)
(* org.nlh4j.core.scheduler: JobSchedulerImpl over a Quartz scheduler with *)
(* a persistent job store, and the life of a BaseIntervalJob, which        *)
(* removes itself from the store after it has been executed.               *)
(*                                                                         *)
(* A call of the Quartz scheduler is atomic; a method of JobSchedulerImpl  *)
(* that makes several is not.  Time is left out: a trigger that waits may  *)
(* fire at any moment.  Job and trigger carry the same name and are stored *)
(* and removed together (the job is not durable).                          *)
(***************************************************************************)
EXTENDS Naturals, FiniteSets

CONSTANTS
    Jobs,        \* the IntervalJob objects, each with a name of its own
    Repeat,      \* getRepeatCount() of each: 0 is repeatForever()
    Callers,     \* the threads that use the scheduler
    Workers,     \* the threads of Quartz that execute jobs
    Reused,      \* the IntervalJob objects that are scheduled more than once
    MaxRestarts  \* bound of the model: how often the process dies or is stopped

ASSUME SchedulerAssumption ==
    /\ Repeat \in [Jobs -> Nat]
    /\ Reused \subseteq Jobs
    /\ MaxRestarts \in Nat

VARIABLES
    sched,     \* the scheduler: standby, started or shutdown
    trig,      \* state of the trigger of each job in the store
    left,      \* how often the trigger still repeats
    call,      \* what each caller does next inside a method
    work,      \* what each worker does
    restarts,  \* the restarts so far
    asked,     \* history: the jobs schedule() has been called with
    stored,    \* history: the jobs that have been stored
    ran,       \* history: the jobs whose doJob() has returned or thrown
    cancelled  \* history: the jobs a caller has paused, unscheduled or deleted

vars == <<sched, trig, left, call, work, restarts, asked, stored, ran, cancelled>>

history == <<asked, stored, ran, cancelled>>

Idle == [op |-> "idle"]

-----------------------------------------------------------------------------
(* Types *)

Call == [op : {"idle"}]
          \union [op : {"store", "replace", "unschedule", "delete"}, job : Jobs]
          \union [op : {"resched"}, todo : SUBSET Jobs]
          \union [op : {"put"}, job : Jobs, copy : Nat, todo : SUBSET Jobs]

Work == [op : {"idle"}] \union [op : {"doJob", "removeMe"}, job : Jobs]

TypeOK ==
    /\ sched \in {"standby", "started", "shutdown"}
    /\ trig \in [Jobs -> {"none", "waiting", "paused", "complete"}]
    /\ left \in [Jobs -> Nat]
    /\ call \in [Callers -> Call]
    /\ work \in [Workers -> Work]
    /\ restarts \in Nat
    /\ asked \in SUBSET Jobs
    /\ stored \in SUBSET Jobs
    /\ ran \in SUBSET Jobs
    /\ cancelled \in SUBSET Jobs

-----------------------------------------------------------------------------
(* The job store of Quartz *)

Existing == {j \in Jobs : trig[j] # "none"}

StoreTrigger(j, repeats) ==
    /\ trig' = [trig EXCEPT ![j] = "waiting"]
    /\ left' = [left EXCEPT ![j] = repeats]

RemoveTrigger(j) == trig' = [trig EXCEPT ![j] = "none"]

Returns(c) == call' = [call EXCEPT ![c] = Idle]

-----------------------------------------------------------------------------
(* start(reschedulerJobs) *)

Start(c, reschedulerJobs) ==
    /\ call[c] = Idle
    /\ sched = "standby"
    /\ sched' = "started"
    /\ call' = IF reschedulerJobs
               THEN [call EXCEPT ![c] = [op |-> "resched", todo |-> Existing]]
               ELSE call
    /\ UNCHANGED <<trig, left, work, restarts, history>>

-----------------------------------------------------------------------------
(* schedule(intervalJob, rescheduledIfExisted) *)

\* checkExists(trigger.getKey()); a scheduler that is not started returns.
ScheduleCheck(c, j, rescheduledIfExisted) ==
    /\ call[c] = Idle
    /\ sched = "started"
    /\ j \in Reused \/ j \notin asked
    /\ asked' = asked \union {j}
    /\ \/ /\ trig[j] = "none"
          /\ call' = [call EXCEPT ![c] = [op |-> "store", job |-> j]]
       \/ /\ trig[j] # "none"
          /\ call' = IF rescheduledIfExisted
                     THEN [call EXCEPT ![c] = [op |-> "replace", job |-> j]]
                     ELSE call
    /\ UNCHANGED <<sched, trig, left, work, restarts, stored, ran, cancelled>>

\* scheduleJob: throws if the job is there by now or the scheduler is shut
\* down, and the exception is only logged.
ScheduleStore(c) ==
    /\ call[c].op = "store"
    /\ Returns(c)
    /\ \/ /\ sched # "shutdown"
          /\ trig[call[c].job] = "none"
          /\ StoreTrigger(call[c].job, Repeat[call[c].job])
          /\ stored' = stored \union {call[c].job}
       \/ /\ sched = "shutdown" \/ trig[call[c].job] # "none"
          /\ UNCHANGED <<trig, left, stored>>
    /\ UNCHANGED <<sched, work, restarts, asked, ran, cancelled>>

\* rescheduleJob: returns null if the trigger is gone.
ScheduleReplace(c) ==
    /\ call[c].op = "replace"
    /\ Returns(c)
    /\ \/ /\ sched # "shutdown"
          /\ trig[call[c].job] # "none"
          /\ StoreTrigger(call[c].job, Repeat[call[c].job])
       \/ /\ sched = "shutdown" \/ trig[call[c].job] = "none"
          /\ UNCHANGED <<trig, left>>
    /\ UNCHANGED <<sched, work, restarts, history>>

-----------------------------------------------------------------------------
(* reschedulerJobsInStore(), alone or at the end of start(TRUE) *)

ReschedBegin(c) ==
    /\ call[c] = Idle
    /\ sched = "started"
    /\ call' = [call EXCEPT ![c] = [op |-> "resched", todo |-> Existing]]
    /\ UNCHANGED <<sched, trig, left, work, restarts, history>>

\* Slip: only the key of the trigger is kept.
ReschedRead_key(c) ==
    /\ call[c].op = "resched"
    /\ \/ /\ call[c].todo = {} \/ sched = "shutdown"
          /\ Returns(c)
       \/ /\ sched # "shutdown"
          /\ \E j \in call[c].todo :
                call' = [call EXCEPT ![c] = [op |-> "put", job |-> j, todo |-> call[c].todo \ {j}]]
    /\ UNCHANGED <<sched, trig, left, work, restarts, history>>

\* getTrigger(triggerKey): a trigger that is gone is passed over; on a
\* scheduler that is shut down the exception ends the loop.
ReschedRead(c) ==
    /\ call[c].op = "resched"
    /\ \/ /\ call[c].todo = {} \/ sched = "shutdown"
          /\ Returns(c)
       \/ /\ sched # "shutdown"
          /\ \E j \in call[c].todo :
                call' = [call EXCEPT ![c] =
                           IF trig[j] = "none"
                           THEN [op |-> "resched", todo |-> call[c].todo \ {j}]
                           ELSE [op |-> "put", job |-> j, copy |-> left[j],
                                 todo |-> call[c].todo \ {j}]]
    /\ UNCHANGED <<sched, trig, left, work, restarts, history>>

\* Slip: the trigger that was read is stored, whether or not it is still there.
ReschedPut_blind(c) ==
    /\ call[c].op = "put"
    /\ StoreTrigger(call[c].job, call[c].copy)
    /\ call' = [call EXCEPT ![c] = [op |-> "resched", todo |-> call[c].todo]]
    /\ UNCHANGED <<sched, work, restarts, history>>

\* Slip: a trigger with no repetition left is removed.
ReschedPut_spent(c) ==
    /\ call[c].op = "put"
    /\ call' = [call EXCEPT ![c] = [op |-> "resched", todo |-> call[c].todo]]
    /\ \/ /\ trig[call[c].job] # "none"
          /\ IF call[c].copy > 0
             THEN StoreTrigger(call[c].job, call[c].copy)
             ELSE RemoveTrigger(call[c].job) /\ UNCHANGED left
       \/ /\ trig[call[c].job] = "none"
          /\ UNCHANGED <<trig, left>>
    /\ UNCHANGED <<sched, work, restarts, history>>

\* rescheduleJob(triggerKey, trigger) with the trigger read before: one that
\* was paused waits again, one that has fired gets its repetitions back.
ReschedPut(c) ==
    /\ call[c].op = "put"
    /\ \/ /\ sched = "shutdown"
          /\ Returns(c)
          /\ UNCHANGED <<trig, left>>
       \/ /\ sched # "shutdown"
          /\ call' = [call EXCEPT ![c] = [op |-> "resched", todo |-> call[c].todo]]
          /\ \/ /\ trig[call[c].job] # "none"
                /\ StoreTrigger(call[c].job, call[c].copy)
             \/ /\ trig[call[c].job] = "none"
                /\ UNCHANGED <<trig, left>>
    /\ UNCHANGED <<sched, work, restarts, history>>

-----------------------------------------------------------------------------
(* pauseTrigger, resumeTrigger, unschedule, delete, completeDelete *)

Cancels(j) == cancelled' = cancelled \union {j}

PauseTrigger(c, j) ==
    /\ call[c] = Idle
    /\ sched # "shutdown"
    /\ trig[j] = "waiting"
    /\ trig' = [trig EXCEPT ![j] = "paused"]
    /\ Cancels(j)
    /\ UNCHANGED <<sched, left, call, work, restarts, asked, stored, ran>>

ResumeTrigger(c, j) ==
    /\ call[c] = Idle
    /\ sched # "shutdown"
    /\ trig[j] = "paused"
    /\ trig' = [trig EXCEPT ![j] = "waiting"]
    /\ UNCHANGED <<sched, left, call, work, restarts, history>>

\* unschedule(jobName), or delete(jobKey): one call of the scheduler each.
Unschedule(c, j) ==
    /\ call[c] = Idle
    /\ sched # "shutdown"
    /\ trig[j] # "none"
    /\ RemoveTrigger(j)
    /\ Cancels(j)
    /\ UNCHANGED <<sched, left, call, work, restarts, asked, stored, ran>>

\* completeDelete pauses, unschedules and deletes, each if not shut down.
CompleteDelete(c, j) ==
    /\ call[c] = Idle
    /\ sched # "shutdown"
    /\ trig[j] # "none"
    /\ trig' = [trig EXCEPT ![j] = IF @ = "waiting" THEN "paused" ELSE @]
    /\ call' = [call EXCEPT ![c] = [op |-> "unschedule", job |-> j]]
    /\ Cancels(j)
    /\ UNCHANGED <<sched, left, work, restarts, asked, stored, ran>>

CompleteUnschedule(c) ==
    /\ call[c].op = "unschedule"
    /\ IF sched = "shutdown" THEN UNCHANGED trig ELSE RemoveTrigger(call[c].job)
    /\ call' = [call EXCEPT ![c] = [op |-> "delete", job |-> call[c].job]]
    /\ UNCHANGED <<sched, left, work, restarts, history>>

DeleteJob(c) ==
    /\ call[c].op = "delete"
    /\ IF sched = "shutdown" THEN UNCHANGED trig ELSE RemoveTrigger(call[c].job)
    /\ Returns(c)
    /\ UNCHANGED <<sched, left, work, restarts, history>>

-----------------------------------------------------------------------------
(* execute(context) on a worker *)

\* Slip: a job leaves the store when it is started.
Fire_removes(w, j) ==
    /\ sched = "started"
    /\ work[w] = Idle
    /\ trig[j] = "waiting"
    /\ work' = [work EXCEPT ![w] = [op |-> "doJob", job |-> j]]
    /\ RemoveTrigger(j)
    /\ UNCHANGED <<sched, left, call, restarts, history>>

\* Slip: the trigger is removed when it fires for the last time.
Fire_last(w, j) ==
    /\ sched = "started"
    /\ work[w] = Idle
    /\ trig[j] = "waiting"
    /\ work' = [work EXCEPT ![w] = [op |-> "doJob", job |-> j]]
    /\ \/ Repeat[j] = 0 /\ UNCHANGED <<trig, left>>
       \/ /\ Repeat[j] > 0
          /\ left' = [left EXCEPT ![j] = IF @ > 0 THEN @ - 1 ELSE 0]
          /\ IF left[j] > 0 THEN UNCHANGED trig ELSE RemoveTrigger(j)
    /\ UNCHANGED <<sched, call, restarts, history>>

\* The trigger of a job fires, also while an earlier execution goes on.
Fire(w, j) ==
    /\ sched = "started"
    /\ work[w] = Idle
    /\ trig[j] = "waiting"
    /\ work' = [work EXCEPT ![w] = [op |-> "doJob", job |-> j]]
    /\ \/ /\ Repeat[j] = 0
          /\ UNCHANGED <<trig, left>>
       \/ /\ Repeat[j] > 0
          /\ left[j] > 0
          /\ left' = [left EXCEPT ![j] = left[j] - 1]
          /\ UNCHANGED trig
       \/ /\ Repeat[j] > 0
          /\ left[j] = 0
          /\ trig' = [trig EXCEPT ![j] = "complete"]
          /\ UNCHANGED left
    /\ UNCHANGED <<sched, call, restarts, history>>

\* doJob() returns, or throws and is logged.
JobDone(w) ==
    /\ work[w].op = "doJob"
    /\ ran' = ran \union {work[w].job}
    /\ work' = [work EXCEPT ![w] = [op |-> "removeMe", job |-> work[w].job]]
    /\ UNCHANGED <<sched, trig, left, call, restarts, asked, stored, cancelled>>

\* removeAfterExecute() is TRUE: removeMe() deletes the job by its name.  A
\* scheduler that is shut down meanwhile deletes nothing.
RemoveMe(w) ==
    /\ work[w].op = "removeMe"
    /\ IF sched = "shutdown" THEN UNCHANGED trig ELSE RemoveTrigger(work[w].job)
    /\ work' = [work EXCEPT ![w] = Idle]
    /\ UNCHANGED <<sched, left, call, restarts, history>>

-----------------------------------------------------------------------------
(* shutdown(), and the end of the process *)

\* quartzScheduler.shutdown() does not wait for the jobs that are executing.
Shutdown(c) ==
    /\ call[c] = Idle
    /\ sched # "shutdown"
    /\ sched' = "shutdown"
    /\ UNCHANGED <<trig, left, call, work, restarts, history>>

\* The process ends, orderly or not, and another one reads the store: what was
\* executing is gone, and triggers that had fired for the last time are removed.
Restart ==
    /\ restarts < MaxRestarts
    /\ restarts' = restarts + 1
    /\ sched' = "standby"
    /\ call' = [c \in Callers |-> Idle]
    /\ work' = [w \in Workers |-> Idle]
    /\ trig' = [j \in Jobs |-> IF trig[j] = "complete" THEN "none" ELSE trig[j]]
    /\ UNCHANGED <<left, history>>

-----------------------------------------------------------------------------
Init ==
    /\ sched = "standby"
    /\ trig = [j \in Jobs |-> "none"]
    /\ left = [j \in Jobs |-> 0]
    /\ call = [c \in Callers |-> Idle]
    /\ work = [w \in Workers |-> Idle]
    /\ restarts = 0
    /\ asked = {}
    /\ stored = {}
    /\ ran = {}
    /\ cancelled = {}

CallBegins(c) ==
    \/ \E reschedulerJobs \in BOOLEAN : Start(c, reschedulerJobs)
    \/ \E j \in Jobs, rescheduledIfExisted \in BOOLEAN :
          ScheduleCheck(c, j, rescheduledIfExisted)
    \/ \E j \in Jobs :
          \/ PauseTrigger(c, j) \/ ResumeTrigger(c, j)
          \/ Unschedule(c, j) \/ CompleteDelete(c, j)
    \/ ReschedBegin(c)
    \/ Shutdown(c)

CallContinues(c) ==
    \/ ScheduleStore(c) \/ ScheduleReplace(c)
    \/ ReschedRead(c) \/ ReschedPut(c)
    \/ CompleteUnschedule(c) \/ DeleteJob(c)

Executes(w) == JobDone(w) \/ RemoveMe(w)

Next ==
    \/ \E c \in Callers : CallBegins(c) \/ CallContinues(c)
    \/ \E w \in Workers : Executes(w) \/ \E j \in Jobs : Fire(w, j)
    \/ Restart

Spec == Init /\ [][Next]_vars

\* Quartz fires what waits, jobs end, and the server starts its scheduler.
Fairness ==
    /\ \A c \in Callers : WF_vars(CallContinues(c))
    /\ \A w \in Workers : WF_vars(Executes(w))
    /\ \A j \in Jobs : SF_vars(\E w \in Workers : Fire(w, j))
    /\ WF_vars(\E c \in Callers : Start(c, FALSE))

FairSpec == Spec /\ Fairness

-----------------------------------------------------------------------------
(* Properties *)

\* A job that repeats for ever and has been stored is executed before it
\* leaves the store, unless a caller takes it out: neither a crash, nor a
\* shutdown, nor rescheduling the store loses it.
NotLost ==
    \A j \in stored : Repeat[j] = 0 => trig[j] # "none" \/ j \in ran \/ j \in cancelled

\* The inductive strengthening of NotLost: who is about to remove a job has
\* executed it or has been asked to, and only a job that is executed a fixed
\* number of times fires for the last time.
StoreInv ==
    /\ NotLost
    /\ \A w \in Workers : work[w].op = "removeMe" => work[w].job \in ran
    /\ \A c \in Callers : call[c].op \in {"unschedule", "delete"} => call[c].job \in cancelled
    /\ \A j \in Jobs : trig[j] = "complete" => Repeat[j] # 0

\* For a job object that is not scheduled twice, one call at most is about to
\* store it, and it has not been stored before.
OnceInv ==
    /\ stored \subseteq asked
    /\ \A c \in Callers : call[c].op = "store" => call[c].job \in asked
    /\ \A c \in Callers : call[c].op = "store" /\ call[c].job \notin Reused =>
          /\ call[c].job \notin stored
          /\ \A d \in Callers : d # c /\ call[d].op = "store" => call[d].job # call[c].job

\* A job object that is scheduled once never returns to the store after it has
\* left it: rescheduling the store with a trigger read earlier, while the job
\* is removed, does not bring it back to be executed again.
NoResurrection ==
    [][\A j \in stored \ Reused : trig[j] = "none" => trig'[j] = "none"]_vars

\* Where each job stands in the store that is promised.
Place == [j \in Jobs |->
    IF trig[j] # "none"
    THEN IF trig[j] = "complete" THEN "spent" ELSE "stored"
    ELSE IF j \in stored THEN "gone" ELSE "new"]

Executing == {j \in Jobs : \E w \in Workers : work[w] = [op |-> "doJob", job |-> j]}

\* The inductive strengthening that the promise needs: what has a trigger, or
\* is executed, has been stored.
KnownInv ==
    /\ \A j \in Jobs : trig[j] # "none" => j \in stored
    /\ \A c \in Callers : call[c].op \in {"unschedule", "delete"} => call[c].job \in stored
    /\ \A w \in Workers : work[w].op # "idle" => work[w].job \in stored

Store == INSTANCE JobStore WITH
            Forever <- {j \in Jobs : Repeat[j] = 0},
            place <- Place,
            busy <- Executing

\* The calls of the scheduler, the executions, shutdowns and restarts keep the
\* promise of the store, in whatever order they come.
StoreSpec == Store!Spec

\* A job that repeats for ever and is stored is executed in the end, across
\* restarts of the process, unless a caller takes it out or the scheduler is
\* shut down for good.
Executed ==
    \A j \in Jobs :
       <>(j \in stored /\ Repeat[j] = 0)
          => <>(j \in ran \/ j \in cancelled) \/ <>[](sched = "shutdown")

\* What IntervalJob says of the repeat count: if it is 0, repeat forever.
RepeatsForever ==
    \A j \in stored : Repeat[j] = 0 => trig[j] # "none" \/ j \in cancelled
=============================================================================
