-------------------------- MODULE JobScheduler_proofs --------------------------
(***************************************************************************)
(* Proofs about JobScheduler, for any jobs, callers and workers: the types *)
(* of its state, that a stored job is not lost before it is executed, that *)
(* a job scheduled once never comes back to the store, and that calls,     *)
(* workers and restarts together implement JobStore.                       *)
(***************************************************************************)
EXTENDS JobScheduler, TLAPS

-----------------------------------------------------------------------------
(* Types *)

\* Every step preserves the types.
LEMMA TypeStep ==
  ASSUME TypeOK, [Next]_vars
  PROVE  TypeOK'
<1> USE SchedulerAssumption DEF Idle, TypeOK, history
<1>1. CASE UNCHANGED vars
  BY <1>1 DEF vars
<1>2. ASSUME NEW c \in Callers, CallBegins(c)
      PROVE  TypeOK'
  <2>1. ASSUME NEW r \in BOOLEAN, Start(c, r)
        PROVE  TypeOK'
    BY <2>1 DEF Start, Existing, Call
  <2>2. ASSUME NEW j \in Jobs, NEW r \in BOOLEAN, ScheduleCheck(c, j, r)
        PROVE  TypeOK'
    BY <2>2 DEF ScheduleCheck, Call
  <2>3. ASSUME NEW j \in Jobs, PauseTrigger(c, j)
        PROVE  TypeOK'
    BY <2>3 DEF PauseTrigger, Cancels
  <2>4. ASSUME NEW j \in Jobs, ResumeTrigger(c, j)
        PROVE  TypeOK'
    BY <2>4 DEF ResumeTrigger
  <2>5. ASSUME NEW j \in Jobs, Unschedule(c, j)
        PROVE  TypeOK'
    BY <2>5 DEF Unschedule, RemoveTrigger, Cancels
  <2>6. ASSUME NEW j \in Jobs, CompleteDelete(c, j)
        PROVE  TypeOK'
    BY <2>6 DEF CompleteDelete, Cancels, Call
  <2>7. CASE ReschedBegin(c)
    BY <2>7 DEF ReschedBegin, Existing, Call
  <2>8. CASE Shutdown(c)
    BY <2>8 DEF Shutdown
  <2> QED
    BY <1>2, <2>1, <2>2, <2>3, <2>4, <2>5, <2>6, <2>7, <2>8 DEF CallBegins
<1>3. ASSUME NEW c \in Callers, CallContinues(c)
      PROVE  TypeOK'
  <2>1. CASE ScheduleStore(c)
    BY <2>1 DEF ScheduleStore, StoreTrigger, Returns, Call
  <2>2. CASE ScheduleReplace(c)
    BY <2>2 DEF ScheduleReplace, StoreTrigger, Returns, Call
  <2>3. CASE ReschedRead(c)
    BY <2>3 DEF ReschedRead, Returns, Call
  <2>4. CASE ReschedPut(c)
    BY <2>4 DEF ReschedPut, StoreTrigger, Returns, Call
  <2>5. CASE CompleteUnschedule(c)
    BY <2>5 DEF CompleteUnschedule, RemoveTrigger, Call
  <2>6. CASE DeleteJob(c)
    BY <2>6 DEF DeleteJob, RemoveTrigger, Returns, Call
  <2> QED
    BY <1>3, <2>1, <2>2, <2>3, <2>4, <2>5, <2>6 DEF CallContinues
<1>4. ASSUME NEW w \in Workers, Executes(w)
      PROVE  TypeOK'
  <2>1. CASE JobDone(w)
    BY <2>1 DEF JobDone, Work
  <2>2. CASE RemoveMe(w)
    BY <2>2 DEF RemoveMe, RemoveTrigger, Work
  <2> QED
    BY <1>4, <2>1, <2>2 DEF Executes
<1>5. ASSUME NEW w \in Workers, NEW j \in Jobs, Fire(w, j)
      PROVE  TypeOK'
  BY <1>5 DEF Fire, Work
<1>6. CASE Restart
  BY <1>6 DEF Restart, Call, Work
<1> QED
  BY <1>1, <1>2, <1>3, <1>4, <1>5, <1>6 DEF Next

-----------------------------------------------------------------------------
(* Not lost before it is executed *)

\* Every step preserves StoreInv.
LEMMA StoreStep ==
  ASSUME TypeOK, StoreInv, [Next]_vars
  PROVE  StoreInv'
<1> USE SchedulerAssumption DEF Idle, TypeOK, history, StoreInv, NotLost
<1>1. CASE UNCHANGED vars
  BY <1>1 DEF vars
<1>2. ASSUME NEW c \in Callers, CallBegins(c)
      PROVE  StoreInv'
  <2>1. ASSUME NEW r \in BOOLEAN, Start(c, r)
        PROVE  StoreInv'
    BY <2>1 DEF Start, Call
  <2>2. ASSUME NEW j \in Jobs, NEW r \in BOOLEAN, ScheduleCheck(c, j, r)
        PROVE  StoreInv'
    BY <2>2 DEF ScheduleCheck, Call
  <2>3. ASSUME NEW j \in Jobs, PauseTrigger(c, j)
        PROVE  StoreInv'
    BY <2>3 DEF PauseTrigger, Cancels
  <2>4. ASSUME NEW j \in Jobs, ResumeTrigger(c, j)
        PROVE  StoreInv'
    BY <2>4 DEF ResumeTrigger
  <2>5. ASSUME NEW j \in Jobs, Unschedule(c, j)
        PROVE  StoreInv'
    BY <2>5 DEF Unschedule, RemoveTrigger, Cancels
  <2>6. ASSUME NEW j \in Jobs, CompleteDelete(c, j)
        PROVE  StoreInv'
    BY <2>6 DEF CompleteDelete, Cancels, Call
  <2>7. CASE ReschedBegin(c)
    BY <2>7 DEF ReschedBegin, Call
  <2>8. CASE Shutdown(c)
    BY <2>8 DEF Shutdown
  <2> QED
    BY <1>2, <2>1, <2>2, <2>3, <2>4, <2>5, <2>6, <2>7, <2>8 DEF CallBegins
<1>3. ASSUME NEW c \in Callers, CallContinues(c)
      PROVE  StoreInv'
  <2>1. CASE ScheduleStore(c)
    BY <2>1 DEF ScheduleStore, StoreTrigger, Returns, Call
  <2>2. CASE ScheduleReplace(c)
    BY <2>2 DEF ScheduleReplace, StoreTrigger, Returns, Call
  <2>3. CASE ReschedRead(c)
    BY <2>3 DEF ReschedRead, Returns, Call
  <2>4. CASE ReschedPut(c)
    BY <2>4 DEF ReschedPut, StoreTrigger, Returns, Call
  <2>5. CASE CompleteUnschedule(c)
    BY <2>5 DEF CompleteUnschedule, RemoveTrigger, Call
  <2>6. CASE DeleteJob(c)
    BY <2>6 DEF DeleteJob, RemoveTrigger, Returns, Call
  <2> QED
    BY <1>3, <2>1, <2>2, <2>3, <2>4, <2>5, <2>6 DEF CallContinues
<1>4. ASSUME NEW w \in Workers, Executes(w)
      PROVE  StoreInv'
  <2>1. CASE JobDone(w)
    BY <2>1 DEF JobDone, Work
  <2>2. CASE RemoveMe(w)
    BY <2>2 DEF RemoveMe, RemoveTrigger, Work
  <2> QED
    BY <1>4, <2>1, <2>2 DEF Executes
<1>5. ASSUME NEW w \in Workers, NEW j \in Jobs, Fire(w, j)
      PROVE  StoreInv'
  BY <1>5 DEF Fire, Work
<1>6. CASE Restart
  BY <1>6 DEF Restart, Call, Work
<1> QED
  BY <1>1, <1>2, <1>3, <1>4, <1>5, <1>6 DEF Next

-----------------------------------------------------------------------------
(* Scheduled once *)

\* Every step preserves OnceInv.
LEMMA OnceStep ==
  ASSUME TypeOK, OnceInv, [Next]_vars
  PROVE  OnceInv'
<1> USE SchedulerAssumption DEF Idle, TypeOK, history, OnceInv
<1>1. CASE UNCHANGED vars
  BY <1>1 DEF vars
<1>2. ASSUME NEW c \in Callers, CallBegins(c)
      PROVE  OnceInv'
  <2>1. ASSUME NEW r \in BOOLEAN, Start(c, r)
        PROVE  OnceInv'
    BY <2>1 DEF Start, Call
  <2>2. ASSUME NEW j \in Jobs, NEW r \in BOOLEAN, ScheduleCheck(c, j, r)
        PROVE  OnceInv'
    BY <2>2 DEF ScheduleCheck, Call
  <2>3. ASSUME NEW j \in Jobs, PauseTrigger(c, j)
        PROVE  OnceInv'
    BY <2>3 DEF PauseTrigger, Cancels
  <2>4. ASSUME NEW j \in Jobs, ResumeTrigger(c, j)
        PROVE  OnceInv'
    BY <2>4 DEF ResumeTrigger
  <2>5. ASSUME NEW j \in Jobs, Unschedule(c, j)
        PROVE  OnceInv'
    BY <2>5 DEF Unschedule, RemoveTrigger, Cancels
  <2>6. ASSUME NEW j \in Jobs, CompleteDelete(c, j)
        PROVE  OnceInv'
    BY <2>6 DEF CompleteDelete, Cancels, Call
  <2>7. CASE ReschedBegin(c)
    BY <2>7 DEF ReschedBegin, Call
  <2>8. CASE Shutdown(c)
    BY <2>8 DEF Shutdown
  <2> QED
    BY <1>2, <2>1, <2>2, <2>3, <2>4, <2>5, <2>6, <2>7, <2>8 DEF CallBegins
<1>3. ASSUME NEW c \in Callers, CallContinues(c)
      PROVE  OnceInv'
  <2>1. CASE ScheduleStore(c)
    BY <2>1 DEF ScheduleStore, StoreTrigger, Returns, Call
  <2>2. CASE ScheduleReplace(c)
    BY <2>2 DEF ScheduleReplace, StoreTrigger, Returns, Call
  <2>3. CASE ReschedRead(c)
    BY <2>3 DEF ReschedRead, Returns, Call
  <2>4. CASE ReschedPut(c)
    BY <2>4 DEF ReschedPut, StoreTrigger, Returns, Call
  <2>5. CASE CompleteUnschedule(c)
    BY <2>5 DEF CompleteUnschedule, RemoveTrigger, Call
  <2>6. CASE DeleteJob(c)
    BY <2>6 DEF DeleteJob, RemoveTrigger, Returns, Call
  <2> QED
    BY <1>3, <2>1, <2>2, <2>3, <2>4, <2>5, <2>6 DEF CallContinues
<1>4. ASSUME NEW w \in Workers, Executes(w)
      PROVE  OnceInv'
  <2>1. CASE JobDone(w)
    BY <2>1 DEF JobDone, Work
  <2>2. CASE RemoveMe(w)
    BY <2>2 DEF RemoveMe, RemoveTrigger, Work
  <2> QED
    BY <1>4, <2>1, <2>2 DEF Executes
<1>5. ASSUME NEW w \in Workers, NEW j \in Jobs, Fire(w, j)
      PROVE  OnceInv'
  BY <1>5 DEF Fire, Work
<1>6. CASE Restart
  BY <1>6 DEF Restart, Call, Work
<1> QED
  BY <1>1, <1>2, <1>3, <1>4, <1>5, <1>6 DEF Next

\* No step of the program brings a job back that has left the store.
LEMMA NoResurrectionStep ==
  ASSUME TypeOK, OnceInv, [Next]_vars, NEW k \in stored \ Reused, trig[k] = "none"
  PROVE  trig'[k] = "none"
<1> USE SchedulerAssumption DEF Idle, TypeOK, history, OnceInv
<1>1. CASE UNCHANGED vars
  BY <1>1 DEF vars
<1>2. ASSUME NEW c \in Callers, CallBegins(c)
      PROVE  trig'[k] = "none"
  <2>1. ASSUME NEW r \in BOOLEAN, Start(c, r)
        PROVE  trig'[k] = "none"
    BY <2>1 DEF Start, Call
  <2>2. ASSUME NEW j \in Jobs, NEW r \in BOOLEAN, ScheduleCheck(c, j, r)
        PROVE  trig'[k] = "none"
    BY <2>2 DEF ScheduleCheck, Call
  <2>3. ASSUME NEW j \in Jobs, PauseTrigger(c, j)
        PROVE  trig'[k] = "none"
    BY <2>3 DEF PauseTrigger, Cancels
  <2>4. ASSUME NEW j \in Jobs, ResumeTrigger(c, j)
        PROVE  trig'[k] = "none"
    BY <2>4 DEF ResumeTrigger
  <2>5. ASSUME NEW j \in Jobs, Unschedule(c, j)
        PROVE  trig'[k] = "none"
    BY <2>5 DEF Unschedule, RemoveTrigger, Cancels
  <2>6. ASSUME NEW j \in Jobs, CompleteDelete(c, j)
        PROVE  trig'[k] = "none"
    BY <2>6 DEF CompleteDelete, Cancels, Call
  <2>7. CASE ReschedBegin(c)
    BY <2>7 DEF ReschedBegin, Call
  <2>8. CASE Shutdown(c)
    BY <2>8 DEF Shutdown
  <2> QED
    BY <1>2, <2>1, <2>2, <2>3, <2>4, <2>5, <2>6, <2>7, <2>8 DEF CallBegins
<1>3. ASSUME NEW c \in Callers, CallContinues(c)
      PROVE  trig'[k] = "none"
  <2>1. CASE ScheduleStore(c)
    BY <2>1 DEF ScheduleStore, StoreTrigger, Returns, Call
  <2>2. CASE ScheduleReplace(c)
    BY <2>2 DEF ScheduleReplace, StoreTrigger, Returns, Call
  <2>3. CASE ReschedRead(c)
    BY <2>3 DEF ReschedRead, Returns, Call
  <2>4. CASE ReschedPut(c)
    BY <2>4 DEF ReschedPut, StoreTrigger, Returns, Call
  <2>5. CASE CompleteUnschedule(c)
    BY <2>5 DEF CompleteUnschedule, RemoveTrigger, Call
  <2>6. CASE DeleteJob(c)
    BY <2>6 DEF DeleteJob, RemoveTrigger, Returns, Call
  <2> QED
    BY <1>3, <2>1, <2>2, <2>3, <2>4, <2>5, <2>6 DEF CallContinues
<1>4. ASSUME NEW w \in Workers, Executes(w)
      PROVE  trig'[k] = "none"
  <2>1. CASE JobDone(w)
    BY <2>1 DEF JobDone, Work
  <2>2. CASE RemoveMe(w)
    BY <2>2 DEF RemoveMe, RemoveTrigger, Work
  <2> QED
    BY <1>4, <2>1, <2>2 DEF Executes
<1>5. ASSUME NEW w \in Workers, NEW j \in Jobs, Fire(w, j)
      PROVE  trig'[k] = "none"
  BY <1>5 DEF Fire, Work
<1>6. CASE Restart
  BY <1>6 DEF Restart, Call, Work
<1> QED
  BY <1>1, <1>2, <1>3, <1>4, <1>5, <1>6 DEF Next

-----------------------------------------------------------------------------
(* Theorems *)

\* Every variable of the model keeps its type.
THEOREM TypeCorrect == Spec => []TypeOK
<1>1. Init => TypeOK
  BY DEF Init, TypeOK, Call, Work, Idle
<1>2. TypeOK /\ [Next]_vars => TypeOK'
  BY TypeStep
<1> QED
  BY <1>1, <1>2, PTL DEF Spec

\* schedule() and removeMe(): a stored job that repeats for ever stays in the
\* store until it has been executed or a caller takes it out, whatever crashes,
\* shutdowns and reschedulings come in between.
THEOREM NotLostHolds == Spec => []NotLost
<1>1. Init => StoreInv
  BY DEF Init, StoreInv, NotLost, Idle
<1>2. TypeOK /\ StoreInv /\ [Next]_vars => StoreInv'
  BY StoreStep
<1>3. StoreInv => NotLost
  BY DEF StoreInv
<1> QED
  BY <1>1, <1>2, <1>3, TypeCorrect, PTL DEF Spec

\* reschedulerJobsInStore(): a job object scheduled once does not return to the
\* store after it has left it.
THEOREM NoResurrectionHolds == Spec => NoResurrection
<1>1. Init => OnceInv
  BY DEF Init, OnceInv, Idle
<1>2. TypeOK /\ OnceInv /\ [Next]_vars => OnceInv'
  BY OnceStep
<1>3. TypeOK /\ OnceInv /\ [Next]_vars
        => [\A j \in stored \ Reused : trig[j] = "none" => trig'[j] = "none"]_vars
  BY NoResurrectionStep
<1> QED
  BY <1>1, <1>2, <1>3, TypeCorrect, PTL DEF Spec, NoResurrection
-----------------------------------------------------------------------------
(* The promise of the store *)

\* Every step preserves KnownInv.
LEMMA KnownStep ==
  ASSUME TypeOK, KnownInv, [Next]_vars
  PROVE  KnownInv'
<1> USE SchedulerAssumption DEF Idle, TypeOK, history, KnownInv
<1>1. CASE UNCHANGED vars
  BY <1>1 DEF vars
<1>2. ASSUME NEW c \in Callers, CallBegins(c)
      PROVE  KnownInv'
  <2>1. ASSUME NEW r \in BOOLEAN, Start(c, r)
        PROVE  KnownInv'
    BY <2>1 DEF Start, Call
  <2>2. ASSUME NEW j \in Jobs, NEW r \in BOOLEAN, ScheduleCheck(c, j, r)
        PROVE  KnownInv'
    BY <2>2 DEF ScheduleCheck, Call
  <2>3. ASSUME NEW j \in Jobs, PauseTrigger(c, j)
        PROVE  KnownInv'
    BY <2>3 DEF PauseTrigger, Cancels
  <2>4. ASSUME NEW j \in Jobs, ResumeTrigger(c, j)
        PROVE  KnownInv'
    BY <2>4 DEF ResumeTrigger
  <2>5. ASSUME NEW j \in Jobs, Unschedule(c, j)
        PROVE  KnownInv'
    BY <2>5 DEF Unschedule, RemoveTrigger, Cancels
  <2>6. ASSUME NEW j \in Jobs, CompleteDelete(c, j)
        PROVE  KnownInv'
    BY <2>6 DEF CompleteDelete, Cancels, Call
  <2>7. CASE ReschedBegin(c)
    BY <2>7 DEF ReschedBegin, Call
  <2>8. CASE Shutdown(c)
    BY <2>8 DEF Shutdown
  <2> QED
    BY <1>2, <2>1, <2>2, <2>3, <2>4, <2>5, <2>6, <2>7, <2>8 DEF CallBegins
<1>3. ASSUME NEW c \in Callers, CallContinues(c)
      PROVE  KnownInv'
  <2>1. CASE ScheduleStore(c)
    BY <2>1 DEF ScheduleStore, StoreTrigger, Returns, Call
  <2>2. CASE ScheduleReplace(c)
    BY <2>2 DEF ScheduleReplace, StoreTrigger, Returns, Call
  <2>3. CASE ReschedRead(c)
    BY <2>3 DEF ReschedRead, Returns, Call
  <2>4. CASE ReschedPut(c)
    BY <2>4 DEF ReschedPut, StoreTrigger, Returns, Call
  <2>5. CASE CompleteUnschedule(c)
    BY <2>5 DEF CompleteUnschedule, RemoveTrigger, Call
  <2>6. CASE DeleteJob(c)
    BY <2>6 DEF DeleteJob, RemoveTrigger, Returns, Call
  <2> QED
    BY <1>3, <2>1, <2>2, <2>3, <2>4, <2>5, <2>6 DEF CallContinues
<1>4. ASSUME NEW w \in Workers, Executes(w)
      PROVE  KnownInv'
  <2>1. CASE JobDone(w)
    BY <2>1 DEF JobDone, Work
  <2>2. CASE RemoveMe(w)
    BY <2>2 DEF RemoveMe, RemoveTrigger, Work
  <2> QED
    BY <1>4, <2>1, <2>2 DEF Executes
<1>5. ASSUME NEW w \in Workers, NEW j \in Jobs, Fire(w, j)
      PROVE  KnownInv'
  BY <1>5 DEF Fire, Work
<1>6. CASE Restart
  BY <1>6 DEF Restart, Call, Work
<1> QED
  BY <1>1, <1>2, <1>3, <1>4, <1>5, <1>6 DEF Next

\* What stored, ran and cancelled say of who is about to remove or to store.
StoreIInv == StoreInv /\ OnceInv /\ KnownInv

\* The place of a job says what its trigger is, and whether it was ever stored.
LEMMA PlaceIs ==
  ASSUME TypeOK, NEW j \in Jobs
  PROVE  /\ trig[j] = "complete" => Place[j] = "spent"
         /\ trig[j] \in {"waiting", "paused"} => Place[j] = "stored"
         /\ trig[j] = "none" => Place[j] = IF j \in stored THEN "gone" ELSE "new"
BY DEF TypeOK, Place

\* A step that touches neither triggers nor executions is none of the store.
LEMMA PlaceFrame ==
  ASSUME UNCHANGED <<trig, stored>>
  PROVE  Place' = Place
BY DEF Place

\* One job moves when its trigger is stored, completed or removed.
LEMMA PlaceMoves ==
  ASSUME TypeOK, KnownInv, NEW j \in Jobs,
         NEW to \in {"waiting", "paused", "complete", "none"},
         trig' = [trig EXCEPT ![j] = to],
         stored' \in {stored, stored \union {j}},
         j \in stored'
  PROVE  Place' = [Place EXCEPT ![j] =
                     IF to = "complete" THEN "spent"
                     ELSE IF to = "none" THEN "gone" ELSE "stored"]
<1>1. ASSUME NEW k \in Jobs
      PROVE  Place'[k] = IF k = j
                         THEN IF to = "complete" THEN "spent"
                              ELSE IF to = "none" THEN "gone" ELSE "stored"
                         ELSE Place[k]
  <2>1. CASE k = j
    BY <2>1 DEF TypeOK, Place
  <2>2. CASE k # j
    <3>1. trig'[k] = trig[k] /\ (k \in stored' <=> k \in stored)
      BY <2>2 DEF TypeOK
    <3> QED
      BY <2>2, <3>1 DEF TypeOK, Place
  <2> QED
    BY <2>1, <2>2
<1>2. /\ Place = [k \in Jobs |-> Place[k]]
      /\ Place' = [k \in Jobs |-> Place'[k]]
  BY DEF Place
<1> QED
  BY <1>1, <1>2

\* A step that changes neither what is stored nor what is executed, asked to
\* stop or done is none of the store.
LEMMA StoreStutter ==
  ASSUME UNCHANGED <<trig, stored, ran, cancelled>>, Executing' = Executing
  PROVE  [Store!Next]_Store!vars
BY PlaceFrame DEF Store!vars

\* rescheduleJob: a job that is in the store stays there, or gets its
\* executions back.
LEMMA StoreRenews ==
  ASSUME TypeOK, KnownInv, NEW j \in Jobs, trig[j] # "none",
         trig' = [trig EXCEPT ![j] = "waiting"],
         UNCHANGED <<stored, work, ran, cancelled>>
  PROVE  [Store!Next]_Store!vars
<1>1. Place' = [Place EXCEPT ![j] = "stored"]
  BY PlaceMoves DEF KnownInv
<1>2. Executing' = Executing
  BY DEF Executing
<1>3. CASE trig[j] = "complete"
  <2>1. Place[j] = "spent"
    BY <1>3, PlaceIs
  <2>2. Store!Renew(j)
    BY <1>1, <1>2, <2>1 DEF Store!Renew, Store!Moves
  <2> QED
    BY <2>2 DEF Store!Next
<1>4. CASE trig[j] # "complete"
  <2>1. Place[j] = "stored"
    BY <1>4, PlaceIs DEF TypeOK
  <2>2. Place' = Place
    BY <1>1, <2>1 DEF Place
  <2> QED
    BY <1>2, <2>2 DEF Store!vars
<1> QED
  BY <1>3, <1>4

\* unscheduleJob, deleteJob: a job leaves the store once it has been executed
\* or someone has asked for it.
LEMMA StoreLeaves ==
  ASSUME TypeOK, KnownInv, NEW j \in Jobs, j \in stored, j \in ran \union cancelled,
         trig' = [trig EXCEPT ![j] = "none"],
         UNCHANGED <<stored, ran, cancelled>>, Executing' = Executing
  PROVE  [Store!Next]_Store!vars
<1>1. Place' = [Place EXCEPT ![j] = "gone"]
  BY PlaceMoves
<1>2. CASE trig[j] = "none"
  <2>1. trig' = trig
    BY <1>2 DEF TypeOK
  <2> QED
    BY <2>1, StoreStutter
<1>3. CASE trig[j] # "none"
  <2>1. Place[j] \in {"stored", "spent"}
    BY <1>3, PlaceIs DEF TypeOK
  <2>2. Store!Leave(j)
    BY <1>1, <2>1 DEF Store!Leave, Store!Inside, Store!Moves
  <2> QED
    BY <2>2 DEF Store!Next
<1> QED
  BY <1>2, <1>3

\* pauseTrigger, unschedule and the first step of completeDelete: someone asks
\* for a job to stop, and it leaves the store at once or not yet.
LEMMA StoreCancels ==
  ASSUME TypeOK, KnownInv, NEW j \in Jobs, trig[j] # "none", Cancels(j),
         UNCHANGED <<stored, work, ran>>,
         \/ trig' = [trig EXCEPT ![j] = "none"]
         \/ trig' = [trig EXCEPT ![j] = IF @ = "waiting" THEN "paused" ELSE @]
  PROVE  Store!Next
<1>1. Executing' = Executing
  BY DEF Executing
<1>2. j \in stored /\ Place[j] \in {"stored", "spent"}
  BY PlaceIs DEF KnownInv, TypeOK
<1>3. Place' = Place \/ Place' = [Place EXCEPT ![j] = "gone"]
  <2>1. CASE trig' = [trig EXCEPT ![j] = "none"]
    BY <1>2, <2>1, PlaceMoves
  <2>2. CASE trig' = [trig EXCEPT ![j] = IF @ = "waiting" THEN "paused" ELSE @]
    BY <2>2 DEF Place, TypeOK
  <2> QED
    BY <2>1, <2>2
<1>4. Store!Cancel(j)
  BY <1>1, <1>2, <1>3 DEF Store!Cancel, Store!Inside, Store!Moves, Cancels
<1> QED
  BY <1>4 DEF Store!Next

\* The calls of the scheduler keep the promise.
LEMMA StoreCalls ==
  ASSUME TypeOK, StoreIInv, NEW c \in Callers, CallBegins(c) \/ CallContinues(c)
  PROVE  [Store!Next]_Store!vars
<1> USE DEF StoreIInv
<1>1. CASE \/ \E r \in BOOLEAN : Start(c, r)
           \/ \E j \in Jobs, r \in BOOLEAN : ScheduleCheck(c, j, r)
           \/ ReschedBegin(c) \/ Shutdown(c) \/ ReschedRead(c)
  <2>1. UNCHANGED <<trig, stored, work, ran, cancelled>>
    BY <1>1 DEF Start, ScheduleCheck, ReschedBegin, Shutdown, ReschedRead, history
  <2> QED
    BY <2>1, StoreStutter DEF Executing
<1>2. ASSUME NEW j \in Jobs, PauseTrigger(c, j)
      PROVE  [Store!Next]_Store!vars
  <2>1. /\ trig[j] # "none"
        /\ trig' = [trig EXCEPT ![j] = IF @ = "waiting" THEN "paused" ELSE @]
        /\ UNCHANGED <<stored, work, ran>>
    BY <1>2 DEF PauseTrigger
  <2> QED
    BY <1>2, <2>1, StoreCancels DEF PauseTrigger
<1>3. ASSUME NEW j \in Jobs, ResumeTrigger(c, j)
      PROVE  [Store!Next]_Store!vars
  BY <1>3, StoreRenews DEF ResumeTrigger, history
<1>4. ASSUME NEW j \in Jobs, Unschedule(c, j)
      PROVE  [Store!Next]_Store!vars
  BY <1>4, StoreCancels DEF Unschedule, RemoveTrigger
<1>5. ASSUME NEW j \in Jobs, CompleteDelete(c, j)
      PROVE  [Store!Next]_Store!vars
  BY <1>5, StoreCancels DEF CompleteDelete
<1>6. CASE ScheduleStore(c)
  <2> DEFINE j == call[c].job
  <2>1. j \in Jobs
    BY <1>6 DEF ScheduleStore, TypeOK, Call
  <2>2. CASE UNCHANGED <<trig, stored>>
    BY <1>6, <2>2, StoreStutter DEF ScheduleStore, Executing
  <2>3. CASE /\ trig[j] = "none"
             /\ trig' = [trig EXCEPT ![j] = "waiting"]
             /\ stored' = stored \union {j}
    <3>1. Place' = [Place EXCEPT ![j] = "stored"]
      BY <2>1, <2>3, PlaceMoves
    <3>2. Place[j] = "new" \/ (Place[j] = "gone" /\ j \in Reused)
      BY <1>6, <2>1, <2>3, PlaceIs DEF ScheduleStore, OnceInv
    <3>3. Executing' = Executing /\ UNCHANGED <<ran, cancelled>>
      BY <1>6 DEF ScheduleStore, Executing
    <3>4. Store!Admit(j)
      BY <3>1, <3>2, <3>3 DEF Store!Admit, Store!Moves
    <3> QED
      BY <2>1, <3>4 DEF Store!Next
  <2> QED
    BY <1>6, <2>2, <2>3 DEF ScheduleStore, StoreTrigger
<1>7. CASE ScheduleReplace(c) \/ ReschedPut(c)
  <2> DEFINE j == call[c].job
  <2>1. /\ j \in Jobs
        /\ UNCHANGED <<stored, work, ran, cancelled>>
        /\ \/ UNCHANGED trig
           \/ trig[j] # "none" /\ trig' = [trig EXCEPT ![j] = "waiting"]
    BY <1>7 DEF ScheduleReplace, ReschedPut, StoreTrigger, TypeOK, Call, history
  <2>2. CASE UNCHANGED trig
    BY <2>1, <2>2, StoreStutter DEF Executing
  <2>3. CASE trig[j] # "none" /\ trig' = [trig EXCEPT ![j] = "waiting"]
    BY <2>1, <2>3, StoreRenews
  <2> QED
    BY <2>1, <2>2, <2>3
<1>8. CASE CompleteUnschedule(c) \/ DeleteJob(c)
  <2> DEFINE j == call[c].job
  <2>1. /\ j \in Jobs
        /\ j \in stored
        /\ j \in cancelled
        /\ UNCHANGED <<stored, work, ran, cancelled>>
        /\ UNCHANGED trig \/ trig' = [trig EXCEPT ![j] = "none"]
    BY <1>8
    DEF CompleteUnschedule, DeleteJob, RemoveTrigger, TypeOK, Call, history, StoreInv, KnownInv
  <2>2. Executing' = Executing
    BY <2>1 DEF Executing
  <2> QED
    BY <2>1, <2>2, StoreStutter, StoreLeaves
<1> QED
  BY <1>1, <1>2, <1>3, <1>4, <1>5, <1>6, <1>7, <1>8 DEF CallBegins, CallContinues

\* The trigger of a job fires: an execution of what is in the store begins.
LEMMA StoreBegins ==
  ASSUME TypeOK, StoreIInv, NEW w \in Workers, NEW j \in Jobs, Fire(w, j)
  PROVE  Store!Next
<1>1. Place[j] = "stored" /\ j \in stored
  BY PlaceIs DEF Fire, StoreIInv, KnownInv
<1>2. Executing' = Executing \union {j}
  BY DEF Fire, Executing, Idle, TypeOK
<1>3. \/ Place' = Place
      \/ Repeat[j] # 0 /\ Place' = [Place EXCEPT ![j] = "spent"]
  <2>1. CASE UNCHANGED trig
    BY <2>1, PlaceFrame DEF Fire, history
  <2>2. CASE Repeat[j] > 0 /\ trig' = [trig EXCEPT ![j] = "complete"]
    <3>1. stored' = stored /\ Repeat[j] # 0
      BY <2>2, SchedulerAssumption DEF Fire, history
    <3>2. Place' = [Place EXCEPT ![j] = "spent"]
      BY <1>1, <2>2, <3>1, PlaceMoves DEF StoreIInv
    <3> QED
      BY <3>1, <3>2
  <2> QED
    BY <2>1, <2>2 DEF Fire
<1>4. UNCHANGED <<ran, cancelled>>
  BY DEF Fire, history
<1>5. Store!Begin(j)
  BY <1>1, <1>2, <1>3, <1>4 DEF Store!Begin, Store!Moves
<1> QED
  BY <1>5 DEF Store!Next

\* doJob ends, and removeMe takes the job out of the store.
LEMMA StoreExecutes ==
  ASSUME TypeOK, StoreIInv, NEW w \in Workers, Executes(w)
  PROVE  [Store!Next]_Store!vars
<1> DEFINE j == work[w].job
<1>1. CASE JobDone(w)
  <2>1. j \in Jobs /\ work[w] = [op |-> "doJob", job |-> j]
    BY <1>1 DEF JobDone, TypeOK, Work
  <2>2. work' = [work EXCEPT ![w] = [op |-> "removeMe", job |-> j]]
    BY <1>1 DEF JobDone
  <2>3. \A k \in Jobs : k # j => (k \in Executing' <=> k \in Executing)
    BY <2>1, <2>2 DEF Executing, TypeOK
  <2>4. j \in Executing /\ Executing \subseteq Jobs /\ Executing' \subseteq Jobs
    BY <2>1 DEF Executing
  <2>5. Executing' \in {Executing, Executing \ {j}}
    BY <2>3, <2>4
  <2>6. Place' = Place /\ ran' = ran \union {j} /\ UNCHANGED cancelled
    BY <1>1, PlaceFrame DEF JobDone
  <2>7. Store!End(j)
    BY <2>4, <2>5, <2>6 DEF Store!End
  <2> QED
    BY <2>1, <2>7 DEF Store!Next
<1>2. CASE RemoveMe(w)
  <2>1. /\ work[w].op = "removeMe"
        /\ j \in Jobs
        /\ j \in stored
        /\ j \in ran
    BY <1>2 DEF RemoveMe, TypeOK, Work, StoreIInv, StoreInv, KnownInv
  <2>2. /\ UNCHANGED <<stored, ran, cancelled>>
        /\ UNCHANGED trig \/ trig' = [trig EXCEPT ![j] = "none"]
    BY <1>2 DEF RemoveMe, RemoveTrigger, history
  <2>3. Executing' = Executing
    BY <1>2, <2>1 DEF RemoveMe, Executing, Idle, TypeOK
  <2> QED
    BY <2>1, <2>2, <2>3, StoreStutter, StoreLeaves DEF StoreIInv
<1> QED
  BY <1>1, <1>2 DEF Executes

\* The process ends: the executions are lost, and the jobs that had none left.
LEMMA StoreDies ==
  ASSUME TypeOK, StoreIInv, Restart
  PROVE  Store!Next
<1>1. Executing' = {}
  BY DEF Restart, Executing, Idle
<1>2. Place' = [j \in Jobs |-> IF Place[j] = "spent" THEN "gone" ELSE Place[j]]
  <2>1. ASSUME NEW j \in Jobs
        PROVE  Place'[j] = IF Place[j] = "spent" THEN "gone" ELSE Place[j]
    <3>1. trig[j] = "complete" => j \in stored
      BY DEF StoreIInv, KnownInv
    <3>2. /\ trig'[j] = IF trig[j] = "complete" THEN "none" ELSE trig[j]
          /\ stored' = stored
      BY DEF Restart, history
    <3> QED
      BY <3>1, <3>2 DEF Place
  <2>2. Place' = [j \in Jobs |-> Place'[j]]
    BY DEF Place
  <2> QED
    BY <2>1, <2>2
<1>3. Store!Die
  BY <1>1, <1>2 DEF Store!Die, Restart, history
<1> QED
  BY <1>3 DEF Store!Next

\* The scheduler, its workers and the server that restarts keep the promise of
\* JobStore: a job enters and leaves the store in one step, and leaves it only
\* executed, on request, or with a process that dies after its last start.
THEOREM ImplementsStore == Spec => StoreSpec
<1>1. Init => Store!Init /\ StoreIInv
  BY DEF Init, Store!Init, Place, Executing, StoreIInv, StoreInv, NotLost, OnceInv, KnownInv, Idle
<1>2. TypeOK /\ StoreIInv /\ [Next]_vars => StoreIInv'
  BY StoreStep, OnceStep, KnownStep DEF StoreIInv
<1>3. TypeOK /\ StoreIInv /\ [Next]_vars => [Store!Next]_Store!vars
  <2> SUFFICES ASSUME TypeOK, StoreIInv, [Next]_vars
               PROVE  [Store!Next]_Store!vars
    OBVIOUS
  <2>1. CASE UNCHANGED vars
    BY <2>1, StoreStutter DEF vars, Executing
  <2> QED
    BY <2>1, StoreCalls, StoreBegins, StoreExecutes, StoreDies DEF Next
<1> QED
  BY <1>1, <1>2, <1>3, TypeCorrect, PTL DEF Spec, StoreSpec, Store!Spec
=============================================================================
