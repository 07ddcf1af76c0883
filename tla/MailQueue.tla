------------------------------- MODULE MailQueue -------------------------------
(***************************************************************************)
(* What the incoming mail job promises of an inbox, without folders, flags *)
(* and threads: an execution claims all the messages that are unread, and  *)
(* hands over those of its claims that have been read by then.             *)
(*                                                                         *)
(* A message that has been handed over is never claimed again.  An         *)
(* execution may give up what it has claimed, and then some of that, but   *)
(* nothing else, is read without being handed over.                        *)
(***************************************************************************)
EXTENDS Naturals

CONSTANTS
    Messages,  \* the messages that may arrive
    Workers    \* the executions that there may be at a time

VARIABLES
    arrived,  \* the messages of the inbox
    unread,   \* those of them that nobody has read
    claims,   \* what each execution may still hand over
    handed    \* how often each message was handed over

vars == <<arrived, unread, claims, handed>>

Init ==
    /\ arrived = {}
    /\ unread = {}
    /\ claims = [w \in Workers |-> {}]
    /\ handed = [m \in Messages |-> 0]

Arrive(m) ==
    /\ m \notin arrived
    /\ arrived' = arrived \union {m}
    /\ unread' = unread \union {m}
    /\ UNCHANGED <<claims, handed>>

\* Someone else reads a message, or an execution one of its claims.
Read(m) ==
    /\ unread' = unread \ {m}
    /\ UNCHANGED <<arrived, claims, handed>>

Claim(w) ==
    /\ claims[w] = {}
    /\ claims' = [claims EXCEPT ![w] = unread]
    /\ UNCHANGED <<arrived, unread, handed>>

Hand(w, m) ==
    /\ m \in claims[w] \ unread
    /\ claims' = [claims EXCEPT ![w] = @ \ {m}]
    /\ handed' = [handed EXCEPT ![m] = @ + 1]
    /\ UNCHANGED <<arrived, unread>>

Forgo(w, m) ==
    /\ m \in claims[w] \ unread
    /\ claims' = [claims EXCEPT ![w] = @ \ {m}]
    /\ UNCHANGED <<arrived, unread, handed>>

GiveUp(w) ==
    /\ \E some \in SUBSET claims[w] : unread' = unread \ some
    /\ claims' = [claims EXCEPT ![w] = {}]
    /\ UNCHANGED <<arrived, handed>>

\* The process dies.
Die ==
    /\ claims' = [w \in Workers |-> {}]
    /\ UNCHANGED <<arrived, unread, handed>>

Next ==
    \/ \E m \in Messages : Arrive(m) \/ Read(m)
    \/ \E w \in Workers :
          \/ Claim(w)
          \/ GiveUp(w)
          \/ \E m \in Messages : Hand(w, m) \/ Forgo(w, m)
    \/ Die

Spec == Init /\ [][Next]_vars

-----------------------------------------------------------------------------
\* What the promise comes to: once a message has been handed over, no execution
\* claims it that has not claimed it before.
NotClaimedAgain ==
    [][\A w \in Workers, m \in Messages :
          handed[m] > 0 /\ m \notin claims[w] => m \notin claims'[w]]_vars
=============================================================================
