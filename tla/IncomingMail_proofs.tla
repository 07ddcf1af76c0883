-------------------------- MODULE IncomingMail_proofs --------------------------
(***************************************************************************)
(* Proofs about IncomingMail, for any messages and any finite set of       *)
(* threads: a message that was handed over is marked on the server, so no  *)
(* later search finds it, and it is handed over once per thread at most;   *)
(* nothing is marked that was not found; and the executions together       *)
(* implement MailQueue.                                                    *)
(***************************************************************************)
EXTENDS IncomingMail, FiniteSetTheorems, TLAPS

-----------------------------------------------------------------------------
(* Types *)

\* Every step preserves the types.
LEMMA TypeStep ==
  ASSUME TypeOK, [Next]_vars
  PROVE  TypeOK'
<1> USE DEF TypeOK, Step, At, Idle, Goes
<1>1. ASSUME NEW m \in Messages, Arrive(m)
      PROVE  TypeOK'
  BY <1>1 DEF Arrive
<1>2. ASSUME NEW m \in Messages, ReadElsewhere(m)
      PROVE  TypeOK'
  BY <1>2 DEF ReadElsewhere
<1>3. ASSUME NEW w \in Workers, Refresh(w)
      PROVE  TypeOK'
  BY <1>3 DEF Refresh
<1>4. ASSUME NEW w \in Workers, Search(w)
      PROVE  TypeOK'
  BY <1>4 DEF Search
<1>5. ASSUME NEW w \in Workers, NEW m \in Messages, Skip(w, m)
      PROVE  TypeOK'
  BY <1>5 DEF Skip
<1>6. ASSUME NEW w \in Workers, NEW m \in Messages, Mark(w, m)
      PROVE  TypeOK'
  BY <1>6 DEF Mark
<1>7. ASSUME NEW w \in Workers, NEW m \in Messages, MarkFails(w, m)
      PROVE  TypeOK'
  BY <1>7 DEF MarkFails, Leaves
<1>8. ASSUME NEW w \in Workers, CreateCallable(w)
      PROVE  TypeOK'
  BY <1>8 DEF CreateCallable
<1>9. ASSUME NEW w \in Workers, TaskEnds(w)
      PROVE  TypeOK'
  BY <1>9 DEF TaskEnds
<1>10. ASSUME NEW w \in Workers, LoopEnds(w)
       PROVE  TypeOK'
  BY <1>10 DEF LoopEnds
<1>11. ASSUME NEW w \in Workers, Finally(w)
       PROVE  TypeOK'
  BY <1>11 DEF Finally, Leaves
<1>12. CASE Crash
  BY <1>12 DEF Crash
<1>13. CASE UNCHANGED vars
  BY <1>13 DEF vars
<1>14. ASSUME NEW w \in Workers, NEW m \in Messages, MarkThrows(w, m)
       PROVE  TypeOK'
  BY <1>14 DEF MarkThrows
<1> QED
  BY <1>1, <1>2, <1>3, <1>4, <1>5, <1>6, <1>7, <1>8, <1>9, <1>10, <1>11, <1>12, <1>13, <1>14
     DEF Next, DoJob

\* Every variable keeps its type.
THEOREM TypeCorrect == Spec => []TypeOK
<1>1. Init => TypeOK
  BY DEF Init, TypeOK, Step, Idle, At
<1> QED
  BY <1>1, TypeStep, PTL DEF Spec

-----------------------------------------------------------------------------
(* Marked before it is handed over *)

\* Every step preserves MarkInv.
LEMMA MarkStep ==
  ASSUME TypeOK, MarkInv, [Next]_vars
  PROVE  MarkInv'
<1> USE DEF TypeOK, Step, At, Idle, Goes, MarkInv
<1>1. ASSUME NEW m \in Messages, Arrive(m)
      PROVE  MarkInv'
  BY <1>1 DEF Arrive
<1>2. ASSUME NEW m \in Messages, ReadElsewhere(m)
      PROVE  MarkInv'
  BY <1>2 DEF ReadElsewhere
<1>3. ASSUME NEW w \in Workers, Refresh(w)
      PROVE  MarkInv'
  BY <1>3 DEF Refresh
<1>4. ASSUME NEW w \in Workers, Search(w)
      PROVE  MarkInv'
  BY <1>4 DEF Search
<1>5. ASSUME NEW w \in Workers, NEW m \in Messages, Skip(w, m)
      PROVE  MarkInv'
  BY <1>5 DEF Skip
<1>6. ASSUME NEW w \in Workers, NEW m \in Messages, Mark(w, m)
      PROVE  MarkInv'
  BY <1>6 DEF Mark
<1>7. ASSUME NEW w \in Workers, NEW m \in Messages, MarkFails(w, m)
      PROVE  MarkInv'
  BY <1>7 DEF MarkFails, Leaves
<1>8. ASSUME NEW w \in Workers, CreateCallable(w)
      PROVE  MarkInv'
  BY <1>8 DEF CreateCallable
<1>9. ASSUME NEW w \in Workers, TaskEnds(w)
      PROVE  MarkInv'
  BY <1>9 DEF TaskEnds
<1>10. ASSUME NEW w \in Workers, LoopEnds(w)
       PROVE  MarkInv'
  BY <1>10 DEF LoopEnds
<1>11. ASSUME NEW w \in Workers, Finally(w)
       PROVE  MarkInv'
  BY <1>11 DEF Finally, Leaves
<1>12. CASE Crash
  BY <1>12 DEF Crash
<1>13. CASE UNCHANGED vars
  BY <1>13 DEF vars
<1>14. ASSUME NEW w \in Workers, NEW m \in Messages, MarkThrows(w, m)
       PROVE  MarkInv'
  BY <1>14 DEF MarkThrows
<1> QED
  BY <1>1, <1>2, <1>3, <1>4, <1>5, <1>6, <1>7, <1>8, <1>9, <1>10, <1>11, <1>12, <1>13, <1>14
     DEF Next, DoJob

\* What an execution hands to a callable is marked on the server, whatever
\* crashes, breaks or overlaps.
THEOREM MarkCorrect == Spec => []MarkInv
<1>1. Init => MarkInv
  BY DEF Init, MarkInv, Idle, At
<1> QED
  BY <1>1, MarkStep, TypeCorrect, PTL DEF Spec

\* Only a search adds to what an execution has found.
LEMMA OnlySearchFinds ==
  ASSUME TypeOK, [Next]_vars, NEW w \in Workers, NEW m \in found'[w], m \notin found[w]
  PROVE  m \notin seen
<1> USE DEF TypeOK
<1>1. ASSUME NEW v \in Workers, Search(v)
      PROVE  m \notin seen
  BY <1>1 DEF Search
<1>2. ASSUME NEW v \in Workers, NEW n \in Messages,
             Skip(v, n) \/ Mark(v, n) \/ MarkThrows(v, n) \/ MarkFails(v, n)
      PROVE  FALSE
  BY <1>2 DEF Skip, Mark, MarkThrows, MarkFails, Leaves
<1>3. ASSUME NEW v \in Workers,
             CreateCallable(v) \/ TaskEnds(v) \/ LoopEnds(v) \/ Finally(v) \/ Refresh(v)
      PROVE  FALSE
  BY <1>3 DEF CreateCallable, TaskEnds, LoopEnds, Finally, Leaves, Refresh
<1>4. ASSUME NEW n \in Messages, Arrive(n) \/ ReadElsewhere(n)
      PROVE  FALSE
  BY <1>4 DEF Arrive, ReadElsewhere
<1>5. ~Crash
  BY DEF Crash
<1>6. ~UNCHANGED vars
  BY DEF vars
<1> QED
  BY <1>1, <1>2, <1>3, <1>4, <1>5, <1>6 DEF Next, DoJob

\* processMessages: an e-mail that has been handed to a callable is not found
\* by a later search, not even after a crash.
THEOREM NotFoundAgainHolds == Spec => NotFoundAgain
<1>1. TypeOK /\ MarkInv /\ [Next]_vars =>
         [\A w \in Workers, m \in Messages :
             handed[m] > 0 /\ m \notin found[w] => m \notin found'[w]]_vars
  BY OnlySearchFinds DEF MarkInv
<1> QED
  BY <1>1, TypeCorrect, MarkCorrect, PTL DEF Spec, NotFoundAgain

\* Whoever marks a message has found it, or is the user who reads it.
LEMMA MarksFound ==
  ASSUME TypeOK, MarkInv, [Next]_vars, NEW m \in seen' \ seen
  PROVE  m \in read' \/ \E w \in Workers : m \in found[w]
<1>1. ASSUME NEW n \in Messages, ReadElsewhere(n)
      PROVE  m \in read'
  BY <1>1 DEF ReadElsewhere
<1>2. ASSUME NEW w \in Workers, NEW n \in Messages,
             Mark(w, n) \/ MarkThrows(w, n) \/ MarkFails(w, n)
      PROVE  m \in found[w]
  BY <1>2 DEF Mark, MarkThrows, MarkFails, MarkInv
<1>3. ASSUME NEW w \in Workers, Finally(w)
      PROVE  m \in found[w]
  BY <1>3 DEF Finally
<1>4. ASSUME NEW w \in Workers, NEW n \in Messages, Skip(w, n)
      PROVE  FALSE
  BY <1>4 DEF Skip
<1>5. ASSUME NEW w \in Workers,
             Search(w) \/ CreateCallable(w) \/ TaskEnds(w) \/ LoopEnds(w) \/ Refresh(w)
      PROVE  FALSE
  BY <1>5 DEF Search, CreateCallable, TaskEnds, LoopEnds, Refresh
<1>6. ASSUME NEW n \in Messages, Arrive(n)
      PROVE  FALSE
  BY <1>6 DEF Arrive
<1>7. ~Crash /\ ~UNCHANGED vars
  BY DEF Crash, vars
<1> QED
  BY <1>1, <1>2, <1>3, <1>4, <1>5, <1>6, <1>7 DEF Next, DoJob

\* processMessages and the finally clause of doJob: an execution marks only
\* what its search has found, so a message that arrives meanwhile stays unread.
THEOREM NewMailUnreadHolds == Spec => NewMailUnread
<1>1. TypeOK /\ MarkInv /\ [Next]_vars =>
         [seen' \ seen \subseteq read' \union UNION {found[w] : w \in Workers}]_vars
  BY MarksFound
<1> QED
  BY <1>1, TypeCorrect, MarkCorrect, PTL DEF Spec, NewMailUnread

-----------------------------------------------------------------------------
(* At most once per thread *)

\* If no execution becomes pending for a message, its bound is kept.
LEMMA PendingShrinks ==
  ASSUME NEW P \in SUBSET Workers, NEW Q \in SUBSET P,
         NEW n \in Nat, n + Cardinality(P) <= Cardinality(Workers)
  PROVE  n + Cardinality(Q) <= Cardinality(Workers)
<1>1. IsFiniteSet(P)
  BY WorkersAssumption, FS_Subset
<1>2. Cardinality(Q) <= Cardinality(P) /\ IsFiniteSet(Q)
  BY <1>1, FS_Subset
<1> QED
  BY <1>1, <1>2, FS_CardinalityType, WorkersAssumption

\* A step that hands nothing over and makes no execution pending keeps it too.
LEMMA BoundKept ==
  ASSUME TypeOK, CountInv, handed' = handed,
         NEW m \in Messages, Pending(m)' \subseteq Pending(m)
  PROVE  handed'[m] + Cardinality(Pending(m)') <= Cardinality(Workers)
<1>1. Pending(m) \in SUBSET Workers /\ Pending(m)' \in SUBSET Pending(m)
  BY DEF Pending
<1>2. handed[m] \in Nat /\ handed[m] + Cardinality(Pending(m)) <= Cardinality(Workers)
  BY DEF CountInv, TypeOK
<1>3. \A Q \in SUBSET Pending(m) : handed[m] + Cardinality(Q) <= Cardinality(Workers)
  BY <1>1, <1>2, PendingShrinks
<1> QED
  BY <1>1, <1>3

\* Every step that neither searches nor creates a callable preserves CountInv.
LEMMA OtherStep ==
  ASSUME TypeOK, CountInv, handed' = handed,
         \A m \in Messages : Pending(m)' \subseteq Pending(m),
         \A w \in Workers : step'[w].at = "marked" => step'[w].msg \notin todo'[w]
  PROVE  CountInv'
<1>1. \A m \in Messages : handed'[m] + Cardinality(Pending(m)') <= Cardinality(Workers)
  BY BoundKept
<1> QED
  BY <1>1 DEF CountInv

\* A search finds only messages that have not been handed over.
LEMMA SearchStep ==
  ASSUME TypeOK, MarkInv, CountInv, NEW w \in Workers, Search(w)
  PROVE  CountInv'
<1> USE DEF TypeOK, Step, At, Idle, Goes
<1>1. ASSUME NEW m \in Messages
      PROVE  handed'[m] + Cardinality(Pending(m)') <= Cardinality(Workers)
  <2>1. CASE handed[m] = 0
    <3>1. Pending(m)' \in SUBSET Workers
      BY DEF Pending
    <3>2. Cardinality(Pending(m)') <= Cardinality(Workers) /\ IsFiniteSet(Pending(m)')
      BY <3>1, WorkersAssumption, FS_Subset
    <3>3. Cardinality(Pending(m)') \in Nat
      BY <3>2, FS_CardinalityType
    <3>4. handed'[m] = 0
      BY <2>1 DEF Search
    <3> QED
      BY <3>2, <3>3, <3>4
  <2>2. CASE handed[m] > 0
    <3>1. Pending(m)' \subseteq Pending(m) /\ handed' = handed
      BY <2>2 DEF Search, Pending, MarkInv
    <3> QED
      BY <3>1, BoundKept
  <2> QED
    BY <2>1, <2>2
<1>2. \A v \in Workers : step'[v].at = "marked" => step'[v].msg \notin todo'[v]
  BY DEF Search, CountInv
<1> QED
  BY <1>1, <1>2 DEF CountInv

\* The execution that hands a message over is no longer pending for it.
LEMMA CreateStep ==
  ASSUME TypeOK, CountInv, NEW w \in Workers, CreateCallable(w)
  PROVE  CountInv'
<1> USE DEF TypeOK, Step, At, Idle, Goes
<1>1. \A v \in Workers : step'[v].at = "marked" => step'[v].msg \notin todo'[v]
  BY DEF CreateCallable, CountInv
<1>2. \A m \in Messages : Pending(m)' \subseteq Pending(m)
  BY DEF CreateCallable, Pending
<1>3. CASE handed' = handed
  BY <1>1, <1>2, <1>3, OtherStep
<1>4. CASE handed' = [handed EXCEPT ![step[w].msg] = @ + 1]
           /\ step' = [step EXCEPT ![w] = [at |-> "task", msg |-> step[w].msg]]
  <2>1. PICK n \in Messages : step[w] = [at |-> "marked", msg |-> n] /\ n \notin todo[w]
    BY DEF CreateCallable, CountInv
  <2>2. ASSUME NEW m \in Messages, m # n
        PROVE  handed'[m] + Cardinality(Pending(m)') <= Cardinality(Workers)
    <3>1. Pending(m) \in SUBSET Workers /\ Pending(m)' \in SUBSET Pending(m)
      BY <1>2 DEF Pending
    <3>2. handed[m] \in Nat /\ handed[m] + Cardinality(Pending(m)) <= Cardinality(Workers)
      BY DEF CountInv
    <3>3. \A Q \in SUBSET Pending(m) : handed[m] + Cardinality(Q) <= Cardinality(Workers)
      BY <3>1, <3>2, PendingShrinks
    <3>4. handed'[m] = handed[m]
      BY <1>4, <2>1, <2>2
    <3> QED
      BY <3>1, <3>3, <3>4
  <2>3. handed'[n] + Cardinality(Pending(n)') <= Cardinality(Workers)
    <3>1. /\ w \in Pending(n)
          /\ Pending(n) \in SUBSET Workers
          /\ Pending(n)' \subseteq Pending(n) \ {w}
      BY <1>4, <2>1 DEF Pending, CreateCallable
    <3>2. IsFiniteSet(Pending(n))
      BY <3>1, WorkersAssumption, FS_Subset
    <3>3. /\ Cardinality(Pending(n) \ {w}) = Cardinality(Pending(n)) - 1
          /\ IsFiniteSet(Pending(n) \ {w})
      BY <3>1, <3>2, FS_RemoveElement
    <3>4. Cardinality(Pending(n)') <= Cardinality(Pending(n)) - 1 /\ IsFiniteSet(Pending(n)')
      BY <3>1, <3>3, FS_Subset
    <3>5. /\ Cardinality(Pending(n)) \in Nat
          /\ Cardinality(Pending(n)') \in Nat
          /\ Cardinality(Workers) \in Nat
      BY <3>2, <3>4, WorkersAssumption, FS_CardinalityType
    <3>6. handed'[n] = handed[n] + 1 /\ handed[n] \in Nat
      BY <1>4, <2>1
    <3>7. handed[n] + Cardinality(Pending(n)) <= Cardinality(Workers)
      BY <2>1 DEF CountInv
    <3> QED
      BY <3>4, <3>5, <3>6, <3>7
  <2> QED
    BY <1>1, <2>2, <2>3 DEF CountInv
<1> QED
  BY <1>3, <1>4 DEF CreateCallable

\* Every step preserves CountInv.
LEMMA CountStep ==
  ASSUME TypeOK, MarkInv, CountInv, [Next]_vars
  PROVE  CountInv'
<1> USE DEF TypeOK, Step, At, Idle, Goes
<1>1. ASSUME NEW m \in Messages, Arrive(m) \/ ReadElsewhere(m)
      PROVE  CountInv'
  BY <1>1, OtherStep DEF Arrive, ReadElsewhere, Pending, CountInv
<1>2. ASSUME NEW w \in Workers, Refresh(w) \/ TaskEnds(w) \/ LoopEnds(w)
      PROVE  CountInv'
  BY <1>2, OtherStep DEF Refresh, TaskEnds, LoopEnds, Pending, CountInv
<1>3. ASSUME NEW w \in Workers, NEW m \in Messages, Skip(w, m)
      PROVE  CountInv'
  BY <1>3, OtherStep DEF Skip, Pending, CountInv
<1>4. ASSUME NEW w \in Workers, NEW m \in Messages, Mark(w, m)
      PROVE  CountInv'
  <2>1. \A n \in Messages : Pending(n)' \subseteq Pending(n)
    BY <1>4 DEF Mark, Pending
  <2>2. \A v \in Workers : step'[v].at = "marked" => step'[v].msg \notin todo'[v]
    BY <1>4 DEF Mark, CountInv
  <2> QED
    BY <1>4, <2>1, <2>2, OtherStep DEF Mark
<1>5. ASSUME NEW w \in Workers, NEW m \in Messages, MarkFails(w, m)
      PROVE  CountInv'
  BY <1>5, OtherStep DEF MarkFails, Leaves, Pending, CountInv
<1>6. ASSUME NEW w \in Workers, Finally(w)
      PROVE  CountInv'
  BY <1>6, OtherStep DEF Finally, Leaves, Pending, CountInv
<1>7. CASE Crash
  BY <1>7, OtherStep DEF Crash, Pending, CountInv
<1>8. CASE UNCHANGED vars
  BY <1>8, OtherStep DEF vars, Pending, CountInv
<1>9. ASSUME NEW w \in Workers, NEW m \in Messages, MarkThrows(w, m)
      PROVE  CountInv'
  BY <1>9, OtherStep DEF MarkThrows, Pending, CountInv
<1> QED
  BY <1>1, <1>2, <1>3, <1>4, <1>5, <1>6, <1>7, <1>8, <1>9, SearchStep, CreateStep
     DEF Next, DoJob

\* doJob: for each message, the times it was handed over and the executions
\* that may still do so are together no more than the threads of the job.
THEOREM CountCorrect == Spec => []CountInv
<1>1. Init => CountInv
  <2> SUFFICES ASSUME Init
               PROVE  CountInv
    OBVIOUS
  <2>1. \A m \in Messages : handed[m] = 0 /\ Pending(m) = {}
    BY DEF Init, Pending, Idle, At
  <2>2. Cardinality(Workers) \in Nat /\ Cardinality({}) = 0
    BY WorkersAssumption, FS_CardinalityType, FS_EmptySet
  <2>3. \A w \in Workers : step[w].at # "marked"
    BY DEF Init, Idle, At
  <2>4. \A m \in Messages : handed[m] + Cardinality(Pending(m)) = 0
    <3> TAKE m \in Messages
    <3>1. Cardinality(Pending(m)) = 0
      BY <2>1, <2>2
    <3> QED
      BY <2>1, <3>1
  <2> QED
    BY <2>2, <2>3, <2>4 DEF CountInv
<1>2. TypeOK /\ MarkInv /\ CountInv /\ [Next]_vars => CountInv'
  BY CountStep
<1> QED
  BY <1>1, <1>2, TypeCorrect, MarkCorrect, PTL DEF Spec

\* doJob: a message is handed over at most as often as there are threads that
\* execute the job, and so once if its executions do not overlap.
THEOREM AtMostOnceHolds == Spec => []AtMostOnce
<1>1. TypeOK /\ CountInv => AtMostOnce
  <2> SUFFICES ASSUME TypeOK, CountInv, NEW m \in Messages
               PROVE  handed[m] <= Cardinality(Workers)
    BY DEF AtMostOnce
  <2>1. Pending(m) \in SUBSET Workers
    BY DEF Pending
  <2>2. IsFiniteSet(Pending(m))
    BY <2>1, WorkersAssumption, FS_Subset
  <2>3. Cardinality(Pending(m)) \in Nat /\ Cardinality(Workers) \in Nat
    BY <2>2, WorkersAssumption, FS_CardinalityType
  <2> QED
    BY <2>3 DEF CountInv, TypeOK
<1> QED
  BY <1>1, TypeCorrect, CountCorrect, PTL

-----------------------------------------------------------------------------
(* The executions keep the promise of MailQueue *)

\* What an execution claims is read off its own position and its own loop.
LEMMA ClaimsFrame ==
  ASSUME UNCHANGED <<step, todo>>
  PROVE  Claims' = Claims
BY DEF Claims

\* A step of one execution changes the claims of that one only.
LEMMA ClaimsMove ==
  ASSUME NEW w \in Workers,
         \A v \in Workers \ {w} : step'[v] = step[v] /\ todo'[v] = todo[v]
  PROVE  Claims' = [Claims EXCEPT ![w] = Claims'[w]]
<1>1. ASSUME NEW v \in Workers
      PROVE  Claims'[v] = IF v = w THEN Claims'[w] ELSE Claims[v]
  BY DEF Claims
<1>2. /\ Claims = [v \in Workers |-> Claims[v]]
      /\ Claims' = [v \in Workers |-> Claims'[v]]
  BY DEF Claims
<1> QED
  BY <1>1, <1>2

\* Outside the step between the mark and the callable, the claims are the
\* messages that the loop has still to come to.
ClaimsMean ==
    \A w \in Workers :
       /\ step[w].at # "marked" => Claims[w] = todo[w]
       /\ \A m \in Messages :
             step[w] = [at |-> "marked", msg |-> m] => Claims[w] = todo[w] \union {m}

\* So it is before and after each step.
LEMMA ClaimsAre == ClaimsMean /\ ClaimsMean'
<1>1. ClaimsMean
  <2> SUFFICES ASSUME NEW w \in Workers
               PROVE  /\ step[w].at # "marked" => Claims[w] = todo[w]
                      /\ \A m \in Messages :
                            step[w] = [at |-> "marked", msg |-> m] =>
                               Claims[w] = todo[w] \union {m}
    BY DEF ClaimsMean
  <2> DEFINE inHand == {n \in Messages : step[w] = [at |-> "marked", msg |-> n]}
  <2>1. Claims[w] = todo[w] \union inHand
    BY DEF Claims
  <2>2. step[w].at # "marked" => inHand = {}
    OBVIOUS
  <2>3. ASSUME NEW m \in Messages, step[w] = [at |-> "marked", msg |-> m]
        PROVE  inHand = {m}
    <3>1. \A n \in Messages : step[w] = [at |-> "marked", msg |-> n] => n = m
      BY <2>3
    <3> QED
      BY <2>3, <3>1
  <2> HIDE DEF inHand
  <2> QED
    BY <2>1, <2>2, <2>3
<1> QED
  BY <1>1, PTL

\* The search claims what is unread; the idle execution had no claims left.
LEMMA QueueSearch ==
  ASSUME TypeOK, MarkInv, NEW w \in Workers, Search(w)
  PROVE  Queue!Next
<1> USE DEF TypeOK, At, Idle, Goes
<1>1. step[w].at # "marked" /\ todo[w] = {}
  BY DEF Search, MarkInv
<1>2. step'[w].at # "marked" /\ todo'[w] = inbox \ seen
  BY DEF Search
<1>3. Claims[w] = {} /\ Claims'[w] = inbox \ seen
  BY <1>1, <1>2, ClaimsAre DEF ClaimsMean
<1>4. Claims' = [Claims EXCEPT ![w] = inbox \ seen]
  BY <1>3, ClaimsMove DEF Search
<1>5. Queue!Claim(w)
  BY <1>3, <1>4 DEF Queue!Claim, Search
<1> QED
  BY <1>5 DEF Queue!Next

\* A message in the loop is passed over if it has been read, or marked.
LEMMA QueueLoop ==
  ASSUME TypeOK, MarkInv, CountInv, NEW w \in Workers, NEW m \in Messages,
         Skip(w, m) \/ Mark(w, m)
  PROVE  Queue!Next
<1> USE DEF TypeOK, At, Goes
<1>1. step[w].at # "marked" /\ m \in todo[w]
  BY DEF Skip, Mark
<1>2. Claims[w] = todo[w]
  BY <1>1, ClaimsAre DEF ClaimsMean
<1>3. CASE Skip(w, m)
  <2>1. step'[w].at # "marked" /\ todo'[w] = todo[w] \ {m} /\ m \in seen
    BY <1>3 DEF Skip, MarkInv
  <2>2. Claims'[w] = Claims[w] \ {m}
    BY <1>2, <2>1, ClaimsAre DEF ClaimsMean
  <2>3. Claims' = [Claims EXCEPT ![w] = Claims[w] \ {m}]
    BY <1>3, <2>2, ClaimsMove DEF Skip
  <2>4. Queue!Forgo(w, m)
    BY <1>1, <1>2, <1>3, <2>1, <2>3 DEF Queue!Forgo, Skip
  <2> QED
    BY <2>4 DEF Queue!Next
<1>4. CASE Mark(w, m)
  <2>1. step'[w] = [at |-> "marked", msg |-> m] /\ todo'[w] = todo[w] \ {m}
    BY <1>4 DEF Mark
  <2>2. Claims'[w] = Claims[w]
    <3>1. Claims'[w] = todo'[w] \union {m}
      BY <2>1, ClaimsAre DEF ClaimsMean
    <3> QED
      BY <1>1, <1>2, <2>1, <3>1
  <2>3. Claims' = Claims
    BY <1>4, <2>2, ClaimsMove DEF Mark, Claims
  <2>4. Queue!Read(m)
    BY <1>4, <2>3 DEF Queue!Read, Mark
  <2> QED
    BY <2>4 DEF Queue!Next
<1> QED
  BY <1>3, <1>4

\* The message in hand is marked, so it is handed over or left out as one that
\* has been read.
LEMMA QueueCreate ==
  ASSUME TypeOK, MarkInv, CountInv, NEW w \in Workers, CreateCallable(w)
  PROVE  Queue!Next
<1> USE DEF TypeOK, Step, At, Goes
<1>1. PICK m \in Messages : step[w] = [at |-> "marked", msg |-> m]
  BY DEF CreateCallable
<1>2. m \in seen /\ m \notin todo[w]
  BY <1>1 DEF MarkInv, CountInv
<1>3. Claims[w] = todo[w] \union {m}
  BY <1>1, ClaimsAre DEF ClaimsMean
<1>4. step'[w].at # "marked" /\ todo'[w] = todo[w]
  BY DEF CreateCallable
<1>5. Claims'[w] = Claims[w] \ {m}
  BY <1>2, <1>3, <1>4, ClaimsAre DEF ClaimsMean
<1>6. Claims' = [Claims EXCEPT ![w] = Claims[w] \ {m}]
  BY <1>5, ClaimsMove DEF CreateCallable
<1>7. UNCHANGED <<inbox, seen>> /\ handed' \in {handed, [handed EXCEPT ![m] = @ + 1]}
  BY <1>1 DEF CreateCallable
<1>8. Queue!Hand(w, m) \/ Queue!Forgo(w, m)
  BY <1>2, <1>3, <1>6, <1>7 DEF Queue!Hand, Queue!Forgo
<1> QED
  BY <1>8 DEF Queue!Next

\* An execution that ends gives up its claims; what it marks then it had
\* claimed, for everything else it has found is read.
LEMMA QueueLeaves ==
  ASSUME TypeOK, MarkInv, NEW w \in Workers,
         Finally(w) \/ \E m \in Messages : MarkFails(w, m)
  PROVE  Queue!Next
<1> USE DEF TypeOK, At, Idle, Goes, Leaves
<1>1. Claims[w] = todo[w]
  BY ClaimsAre DEF ClaimsMean, Finally, MarkFails
<1>2. step'[w].at # "marked" /\ todo'[w] = {}
  BY DEF Finally, MarkFails
<1>3. Claims'[w] = {}
  BY <1>2, ClaimsAre DEF ClaimsMean
<1>4. Claims' = [Claims EXCEPT ![w] = {}]
  BY <1>3, ClaimsMove DEF Finally, MarkFails
<1>5. \E some \in SUBSET Claims[w] : inbox' \ seen' = (inbox \ seen) \ some
  <2>1. CASE seen' = seen
    <3>1. {} \in SUBSET Claims[w] /\ inbox' \ seen' = (inbox \ seen) \ {}
      BY <2>1 DEF Finally, MarkFails
    <3> QED
      BY <3>1
  <2>2. CASE Finally(w) /\ seen' = seen \union found[w]
    <3>1. inbox' \ seen' = (inbox \ seen) \ todo[w]
      BY <2>2 DEF Finally, MarkInv
    <3> QED
      BY <1>1, <3>1
  <2>3. ASSUME NEW m \in Messages, MarkFails(w, m), seen' = seen \union {m}
        PROVE  \E some \in SUBSET Claims[w] : inbox' \ seen' = (inbox \ seen) \ some
    <3>1. m \in todo[w] /\ inbox' \ seen' = (inbox \ seen) \ {m}
      BY <2>3 DEF MarkFails
    <3> QED
      BY <1>1, <3>1
  <2> QED
    BY <2>1, <2>2, <2>3 DEF Finally, MarkFails
<1>6. Queue!GiveUp(w)
  BY <1>4, <1>5 DEF Queue!GiveUp, Finally, MarkFails
<1> QED
  BY <1>6 DEF Queue!Next

\* A flag that throws leaves the claims as they are; the message may be read.
LEMMA QueueThrows ==
  ASSUME TypeOK, NEW w \in Workers, NEW m \in Messages, MarkThrows(w, m)
  PROVE  [Queue!Next]_Queue!vars
<1> USE DEF TypeOK, At, Goes
<1>1. step[w].at # "marked" /\ step'[w].at # "marked" /\ todo'[w] = todo[w]
  BY DEF MarkThrows
<1>2. Claims'[w] = Claims[w]
  BY <1>1, ClaimsAre DEF ClaimsMean
<1>3. Claims' = Claims
  BY <1>2, ClaimsMove DEF MarkThrows, Claims
<1>4. CASE seen' = seen
  BY <1>3, <1>4 DEF MarkThrows, Queue!vars
<1>5. CASE m \notin seen /\ seen' = seen \union {m}
  <2>1. m \in inbox \ seen /\ inbox' \ seen' = (inbox \ seen) \ {m}
    BY <1>5 DEF MarkThrows
  <2>2. Queue!Read(m)
    BY <1>3, <2>1 DEF MarkThrows, Queue!Read
  <2> QED
    BY <2>2 DEF Queue!Next
<1> QED
  BY <1>4, <1>5 DEF MarkThrows

\* The remaining steps of an execution are none of the queue.
LEMMA QueueStutter ==
  ASSUME TypeOK, NEW w \in Workers, TaskEnds(w) \/ LoopEnds(w) \/ Refresh(w)
  PROVE  [Queue!Next]_Queue!vars
<1> USE DEF TypeOK, At, Goes
<1>1. CASE Refresh(w)
  BY <1>1, ClaimsFrame DEF Refresh, Queue!vars
<1>2. CASE TaskEnds(w) \/ LoopEnds(w)
  <2>1. step[w].at # "marked" /\ step'[w].at # "marked" /\ todo'[w] = todo[w]
    BY <1>2 DEF TaskEnds, LoopEnds
  <2>2. Claims'[w] = Claims[w]
    BY <2>1, ClaimsAre DEF ClaimsMean
  <2>3. Claims' = Claims
    BY <1>2, <2>2, ClaimsMove DEF TaskEnds, LoopEnds, Claims
  <2> QED
    BY <1>2, <2>3 DEF TaskEnds, LoopEnds, Queue!vars
<1> QED
  BY <1>1, <1>2

\* The server, its other clients and the end of the process.
LEMMA QueueServer ==
  ASSUME TypeOK,
         Crash \/ \E m \in Messages : Arrive(m) \/ ReadElsewhere(m)
  PROVE  Queue!Next
<1>1. ASSUME NEW m \in Messages, Arrive(m)
      PROVE  Queue!Next
  <2>1. Queue!Arrive(m)
    BY <1>1, ClaimsFrame DEF Queue!Arrive, Arrive, TypeOK
  <2> QED
    BY <2>1 DEF Queue!Next
<1>2. ASSUME NEW m \in Messages, ReadElsewhere(m)
      PROVE  Queue!Next
  <2>1. Queue!Read(m)
    BY <1>2, ClaimsFrame DEF Queue!Read, ReadElsewhere
  <2> QED
    BY <2>1 DEF Queue!Next
<1>3. CASE Crash
  <2>1. Claims' = [w \in Workers |-> {}]
    BY <1>3 DEF Crash, Claims, Idle, At
  <2>2. Queue!Die
    BY <1>3, <2>1 DEF Queue!Die, Crash
  <2> QED
    BY <2>2 DEF Queue!Next
<1> QED
  BY <1>1, <1>2, <1>3

\* doJob and processMessages keep the promise of MailQueue: each execution hands
\* over, once each, messages that were unread when it began and are marked by
\* then, and whatever else it marks it had claimed and gives up.
THEOREM ImplementsQueue == Spec => MailSpec
<1>1. Init => Queue!Init
  BY DEF Init, Queue!Init, Claims, Idle, At
<1>2. TypeOK /\ MarkInv /\ CountInv /\ [Next]_vars => [Queue!Next]_Queue!vars
  <2> SUFFICES ASSUME TypeOK, MarkInv, CountInv, [Next]_vars
               PROVE  [Queue!Next]_Queue!vars
    OBVIOUS
  <2>1. CASE UNCHANGED vars
    BY <2>1, ClaimsFrame DEF vars, Queue!vars
  <2> QED
    BY <2>1, QueueSearch, QueueLoop, QueueCreate, QueueLeaves, QueueThrows,
         QueueStutter, QueueServer
       DEF Next, DoJob
<1> QED
  BY <1>1, <1>2, TypeCorrect, MarkCorrect, CountCorrect, PTL DEF Spec, MailSpec, Queue!Spec
=============================================================================
