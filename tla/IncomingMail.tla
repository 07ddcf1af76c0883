----------------------------- MODULE IncomingMail -----------------------------
(***************************************************************************)
(* AbstractIncomingEmailJob.doJob: an execution finds the unread messages  *)
(* of an IMAP inbox, marks each as read, hands it to a callable on another *)
(* thread and waits for that one.  Executions may overlap: two jobs of one *)
(* account, or one job whose trigger fires again.  The process may die in  *)
(* the middle, connections break, and another client reads the mail.       *)
(*                                                                         *)
(* The read mark is a flag on the server; the messages of an open folder   *)
(* carry a copy of it.  The order of the messages is left out.             *)
(***************************************************************************)
EXTENDS Naturals, FiniteSets

CONSTANTS
    Messages,  \* the messages that may arrive
    Workers    \* the threads of Quartz on which the job is executed

ASSUME WorkersAssumption == IsFiniteSet(Workers)

VARIABLES
    inbox,   \* the messages that have arrived
    seen,    \* those that are marked as read on the server
    step,    \* what each execution does next
    found,   \* the messages its search has found
    todo,    \* those its loop has not come to
    local,   \* those marked as read in its copy of the flags
    handed,  \* history: how often each message was given to a running callable
    read     \* history: the messages another client has read

vars == <<inbox, seen, step, found, todo, local, handed, read>>

At(s) == [at |-> s]
Idle == At("idle")

-----------------------------------------------------------------------------
(* Types *)

\* "done" and "aborted" are the two ways to the finally clause of doJob.
Step == [at : {"idle", "loop", "done", "aborted"}]
          \union [at : {"marked", "task"}, msg : Messages]

TypeOK ==
    /\ inbox \in SUBSET Messages
    /\ seen \in SUBSET inbox
    /\ step \in [Workers -> Step]
    /\ found \in [Workers -> SUBSET inbox]
    /\ todo \in [Workers -> SUBSET inbox]
    /\ local \in [Workers -> SUBSET inbox]
    /\ handed \in [Messages -> Nat]
    /\ read \in SUBSET inbox

-----------------------------------------------------------------------------
(* The server and its other clients *)

Arrive(m) ==
    /\ m \notin inbox
    /\ inbox' = inbox \union {m}
    /\ UNCHANGED <<seen, step, found, todo, local, handed, read>>

ReadElsewhere(m) ==
    /\ m \in inbox \ seen
    /\ seen' = seen \union {m}
    /\ read' = read \union {m}
    /\ UNCHANGED <<inbox, step, found, todo, local, handed>>

\* The server tells an open folder of the flags that others have set.
Refresh(w) ==
    /\ step[w] # Idle
    /\ local' = [local EXCEPT ![w] = seen]
    /\ UNCHANGED <<inbox, seen, step, found, todo, handed, read>>

-----------------------------------------------------------------------------
(* doJob *)

Goes(w, s) == step' = [step EXCEPT ![w] = s]

\* The execution ends: its folder is closed, or given up with the connection.
Leaves(w) ==
    /\ Goes(w, Idle)
    /\ found' = [found EXCEPT ![w] = {}]
    /\ todo' = [todo EXCEPT ![w] = {}]
    /\ local' = [local EXCEPT ![w] = {}]

\* openFolder, getUnreadMessageCount and search; without an unread message, or
\* if one of them throws, the execution ends and changes nothing.
Search(w) ==
    /\ step[w] = Idle
    /\ inbox \ seen # {}
    /\ Goes(w, At("loop"))
    /\ found' = [found EXCEPT ![w] = inbox \ seen]
    /\ todo' = [todo EXCEPT ![w] = inbox \ seen]
    /\ local' = [local EXCEPT ![w] = seen]
    /\ UNCHANGED <<inbox, seen, handed, read>>

\* Slip: the loop passes over a message that has not been read.
Skip_unread(w, m) ==
    /\ step[w] = At("loop")
    /\ m \in todo[w]
    /\ todo' = [todo EXCEPT ![w] = @ \ {m}]
    /\ UNCHANGED <<inbox, seen, step, found, local, handed, read>>

\* The loop passes over a message that has been read since the search.
Skip(w, m) ==
    /\ step[w] = At("loop")
    /\ m \in todo[w] \intersect local[w]
    /\ todo' = [todo EXCEPT ![w] = @ \ {m}]
    /\ UNCHANGED <<inbox, seen, step, found, local, handed, read>>

\* Slip: the message is not marked before it is processed.
Mark_late(w, m) ==
    /\ step[w] = At("loop")
    /\ m \in todo[w] \ local[w]
    /\ todo' = [todo EXCEPT ![w] = @ \ {m}]
    /\ Goes(w, [at |-> "marked", msg |-> m])
    /\ UNCHANGED <<inbox, seen, found, local, handed, read>>

\* Slip: the flag is set in the copy only.
Mark_local(w, m) ==
    /\ step[w] = At("loop")
    /\ m \in todo[w] \ local[w]
    /\ todo' = [todo EXCEPT ![w] = @ \ {m}]
    /\ local' = [local EXCEPT ![w] = @ \union {m}]
    /\ Goes(w, [at |-> "marked", msg |-> m])
    /\ UNCHANGED <<inbox, seen, found, handed, read>>

\* message.setFlag(SEEN); saveChanges throws on IMAP and is caught.
Mark(w, m) ==
    /\ step[w] = At("loop")
    /\ m \in todo[w] \ local[w]
    /\ todo' = [todo EXCEPT ![w] = @ \ {m}]
    /\ seen' = seen \union {m}
    /\ local' = [local EXCEPT ![w] = @ \union {m}]
    /\ Goes(w, [at |-> "marked", msg |-> m])
    /\ UNCHANGED <<inbox, found, handed, read>>

\* message.isSet or setFlag throws and the folder stays open: the loop is left,
\* whether or not the server has set the flag.
MarkThrows(w, m) ==
    /\ step[w] = At("loop")
    /\ m \in todo[w]
    /\ seen' \in {seen, seen \union {m}}
    /\ Goes(w, At("aborted"))
    /\ UNCHANGED <<inbox, found, todo, local, handed, read>>

\* The connection breaks while the flag is set, before or after the server has
\* it: the folder is no longer open and the finally clause does nothing.
MarkFails(w, m) ==
    /\ step[w] = At("loop")
    /\ m \in todo[w] \ local[w]
    /\ seen' \in {seen, seen \union {m}}
    /\ Leaves(w)
    /\ UNCHANGED <<inbox, handed, read>>

\* Slip: the task does not keep its message.
CreateCallable_bare(w) ==
    /\ step[w].at = "marked"
    /\ handed' = [handed EXCEPT ![step[w].msg] = @ + 1]
    /\ Goes(w, At("task"))
    /\ UNCHANGED <<inbox, seen, found, todo, local, read>>

\* createCallable parses the message: it gives a callable, which is submitted
\* and awaited, or none, or it throws.
CreateCallable(w) ==
    /\ step[w].at = "marked"
    /\ \/ /\ handed' = [handed EXCEPT ![step[w].msg] = @ + 1]
          /\ Goes(w, [at |-> "task", msg |-> step[w].msg])
       \/ /\ Goes(w, At("loop"))
          /\ UNCHANGED handed
       \/ /\ Goes(w, At("aborted"))
          /\ UNCHANGED handed
    /\ UNCHANGED <<inbox, seen, found, todo, local, read>>

\* Slip: a callable that fails is submitted again.
TaskEnds_again(w) ==
    /\ step[w].at = "task"
    /\ \/ Goes(w, At("loop"))
       \/ Goes(w, [at |-> "marked", msg |-> step[w].msg])
    /\ UNCHANGED <<inbox, seen, found, todo, local, handed, read>>

\* task.get() returns or throws; the loop goes on either way.
TaskEnds(w) ==
    /\ step[w].at = "task"
    /\ Goes(w, At("loop"))
    /\ UNCHANGED <<inbox, seen, found, todo, local, handed, read>>

LoopEnds(w) ==
    /\ step[w] = At("loop")
    /\ todo[w] = {}
    /\ Goes(w, At("done"))
    /\ UNCHANGED <<inbox, seen, found, todo, local, handed, read>>

\* Slip: the whole inbox is marked.
Finally_all(w) ==
    /\ step[w] \in {At("done"), At("aborted")}
    /\ \/ seen' = inbox
       \/ UNCHANGED seen
    /\ Leaves(w)
    /\ UNCHANGED <<inbox, handed, read>>

\* The finally clause marks every message found and closes the folder, unless
\* the connection is lost.
Finally(w) ==
    /\ step[w] \in {At("done"), At("aborted")}
    /\ \/ seen' = seen \union found[w]
       \/ UNCHANGED seen
    /\ Leaves(w)
    /\ UNCHANGED <<inbox, handed, read>>

\* The process dies, and another one starts with no execution under way.
Crash ==
    /\ step' = [w \in Workers |-> Idle]
    /\ found' = [w \in Workers |-> {}]
    /\ todo' = [w \in Workers |-> {}]
    /\ local' = [w \in Workers |-> {}]
    /\ UNCHANGED <<inbox, seen, handed, read>>

-----------------------------------------------------------------------------
Init ==
    /\ inbox = {}
    /\ seen = {}
    /\ step = [w \in Workers |-> Idle]
    /\ found = [w \in Workers |-> {}]
    /\ todo = [w \in Workers |-> {}]
    /\ local = [w \in Workers |-> {}]
    /\ handed = [m \in Messages |-> 0]
    /\ read = {}

DoJob(w) ==
    \/ Search(w)
    \/ \E m \in Messages : Skip(w, m) \/ Mark(w, m) \/ MarkThrows(w, m) \/ MarkFails(w, m)
    \/ CreateCallable(w)
    \/ TaskEnds(w)
    \/ LoopEnds(w)
    \/ Finally(w)

Next ==
    \/ \E m \in Messages : Arrive(m) \/ ReadElsewhere(m)
    \/ \E w \in Workers : DoJob(w) \/ Refresh(w)
    \/ Crash

Spec == Init /\ [][Next]_vars

-----------------------------------------------------------------------------
(* Properties *)

\* A message is marked on the server before a callable gets it: neither a crash
\* nor a lost connection makes a later execution find it and process it again.
NotFoundAgain ==
    [][\A w \in Workers, m \in Messages :
          handed[m] > 0 /\ m \notin found[w] => m \notin found'[w]]_vars

\* A message is processed at most as often as executions overlap: once, if
\* the job is executed on one thread at a time.
AtMostOnce == \A m \in Messages : handed[m] <= Cardinality(Workers)

\* An execution marks only what its search has found: a message that arrives
\* meanwhile stays unread until a later execution finds it.
NewMailUnread ==
    [][seen' \ seen \subseteq read' \union UNION {found[w] : w \in Workers}]_vars

\* The inductive invariant: what an execution has in hand, or has handed over,
\* is marked as read on the server, its copy of the flags is not ahead, and
\* its loop only goes through what the search has found, all of which is read
\* or still to come.
MarkInv ==
    /\ \A m \in Messages : handed[m] > 0 => m \in seen
    /\ \A w \in Workers : step[w].at \in {"marked", "task"} => step[w].msg \in seen
    /\ \A w \in Workers : local[w] \subseteq seen
    /\ \A w \in Workers : todo[w] \subseteq found[w] /\ found[w] \subseteq todo[w] \union seen
    /\ \A w \in Workers : step[w] = Idle => found[w] = {}

\* The executions that may still hand a message over, and the inductive
\* strengthening of AtMostOnce.
Pending(m) ==
    {w \in Workers : m \in todo[w] \/ step[w] = [at |-> "marked", msg |-> m]}

CountInv ==
    /\ \A m \in Messages : handed[m] + Cardinality(Pending(m)) <= Cardinality(Workers)
    /\ \A w \in Workers : step[w].at = "marked" => step[w].msg \notin todo[w]

\* What an execution may still hand over.
Claims == [w \in Workers |->
    todo[w] \union {m \in Messages : step[w] = [at |-> "marked", msg |-> m]}]

Queue == INSTANCE MailQueue WITH
            arrived <- inbox,
            unread <- inbox \ seen,
            claims <- Claims

\* Searches, flags and callables keep the promise of the queue.
MailSpec == Queue!Spec

\* What the comment of the finally clause says: it marks processed e-mails.
FinallyMarksProcessed ==
    [][\A w \in Workers :
          step[w] = At("aborted") /\ step'[w] = Idle =>
             \A m \in seen' \ seen : handed[m] > 0]_vars
=============================================================================
